---- MODULE Spec2Model ----
(***************************************************************************)
(* Model of deepbrowser's page session (browser/cdp/page.py): the tagged-  *)
(* element table and point map of AsyncCDPBrowserPage, the tagging pass    *)
(* tagify() with its suspension points, untagify(), and the action         *)
(* methods addressed by annotation number.  The browser behind the CDP     *)
(* session is the environment: every reply (or protocol error, or          *)
(* timeout) is a nondeterministic choice.                                  *)
(***************************************************************************)
EXTENDS Integers, Sequences, FiniteSets, TLC

(***************************************************************************)
(* Bounds of the model.                                                    *)
(***************************************************************************)
\* annotation-number strings offered to the actions spell -MaxNumber..MaxNumber
MaxNumber == 2
\* the page is scrolled vertically by 0..MaxScroll when the viewport is read
MaxScroll == 1
\* object-group ids (uuid4 values) are drawn from 1..NumGroups
NumGroups == 2
\* width and height of the visual viewport reported by the browser
ViewSize == 3

(***************************************************************************)
(* Strings are sequences of one-character strings, so that str() and int() *)
(* are computed and not assumed.                                           *)
(***************************************************************************)
Digits == <<"0", "1", "2", "3", "4", "5", "6", "7", "8", "9">>

DigitChars == {Digits[i] : i \in 1..10}

DigitVal(c) == (CHOOSE i \in 1..10 : Digits[i] = c) - 1

RECURSIVE PyStrNat(_)
PyStrNat(n) ==
  IF n < 10 THEN <<Digits[n + 1]>>
  ELSE PyStrNat(n \div 10) \o <<Digits[(n % 10) + 1]>>

\* str(i) for a Python int
PyStr(i) == IF i < 0 THEN <<"-">> \o PyStrNat(0 - i) ELSE PyStrNat(i)

RECURSIVE DigitsValue(_, _)
DigitsValue(s, acc) ==
  IF s = <<>> THEN acc
  ELSE DigitsValue(Tail(s), acc * 10 + DigitVal(Head(s)))

AllDigits(s) == s # <<>> /\ \A i \in 1..Len(s) : s[i] \in DigitChars

\* int(s) for a Python str: an optional sign, then decimal digits; anything
\* else raises ValueError (ok = FALSE)
PyInt(s) ==
  IF s # <<>> /\ Head(s) \in {"-", "+"}
  THEN IF AllDigits(Tail(s))
       THEN [ok |-> TRUE,
             val |-> IF Head(s) = "-" THEN 0 - DigitsValue(Tail(s), 0)
                     ELSE DigitsValue(Tail(s), 0)]
       ELSE [ok |-> FALSE, val |-> 0]
  ELSE IF AllDigits(s)
       THEN [ok |-> TRUE, val |-> DigitsValue(s, 0)]
       ELSE [ok |-> FALSE, val |-> 0]

(***************************************************************************)
(* Rect (tagging/shapes.py)                                                *)
(***************************************************************************)
Rect(x, y, w, h) == [x |-> x, y |-> y, width |-> w, height |-> h]

Max(a, b) == IF a >= b THEN a ELSE b

Min(a, b) == IF a <= b THEN a ELSE b

intersects_with(self, other) ==
  LET x_intersects ==
        \/ (other.x <= self.x /\ self.x < other.x + other.width)
        \/ (self.x < other.x /\ other.x <= self.x + self.width)
      y_intersects ==
        \/ (other.y <= self.y /\ self.y < other.y + other.height)
        \/ (self.y < other.y /\ other.y <= self.y + self.height)
  IN x_intersects /\ y_intersects

contains(self, x, y) ==
  /\ self.x <= x /\ x <= self.x + self.width
  /\ self.y <= y /\ y <= self.y + self.height

relative_point(self, x, y) == <<x - self.x, y - self.y>>

clip_to(self, rect) ==
  LET x == Max(self.x, rect.x)
      y == Max(self.y, rect.y)
  IN Rect(x, y,
          Min(self.x + self.width, rect.x + rect.width) - x,
          Min(self.y + self.height, rect.y + rect.height) - y)

(***************************************************************************)
(* The page behind the session.  A snapshot is a sequence of documents; a  *)
(* document lists the nodes that the extractor and is_interactive keep as  *)
(* candidates (in node order), or is one on which extraction raises.       *)
(***************************************************************************)
NoOptions == <<>>

Node(backend, name, html_id, bounds, down, right, is_select, options, values, text) ==
  [backend_node_id |-> backend, name |-> name, html_id |-> html_id,
   bounds |-> bounds,
   can_scroll_up |-> FALSE, can_scroll_down |-> down,
   can_scroll_left |-> FALSE, can_scroll_right |-> right,
   is_select |-> is_select, options |-> options, option_values |-> values,
   text |-> text]

\* a link
NodeA == Node(11, "A", "lnk", Rect(0, 0, 2, 2), FALSE, FALSE, FALSE,
              NoOptions, NoOptions, "go")

\* a box that can be scrolled down and right, not up and not left
NodeDiv == Node(12, "DIV", "box", Rect(1, 1, 2, 3), TRUE, TRUE, FALSE,
                NoOptions, NoOptions, "")

\* a select with two options of the same text and different values
NodeSelect == Node(13, "SELECT", "sel", Rect(0, 2, 3, 2), FALSE, FALSE, TRUE,
                   <<"a", "b", "a">>, <<"v1", "v2", "v3">>, "a b a")

Doc(nodes) == [raises |-> FALSE, nodes |-> nodes]

\* a document on which get_elements_in_viewport raises
BadDoc == [raises |-> TRUE, nodes |-> <<>>]

Snapshots ==
  { <<>>,
    <<Doc(<<NodeA, NodeDiv>>)>>,
    <<Doc(<<NodeSelect>>), Doc(<<NodeA>>)>>,
    <<Doc(<<NodeDiv, NodeSelect>>), BadDoc>> }

\* the visible rect built from page_details: scroll offset and viewport size
VisibleRect(scroll_y) == Rect(0, scroll_y, ViewSize, ViewSize)

NoRect == Rect(0, 0, 0, 0)

(***************************************************************************)
(* Element (tagging/elements.py) as get_elements_in_viewport builds it     *)
(***************************************************************************)
MakeElement(node, node_id, bounds) ==
  [node_id |-> node_id,
   backend_node_id |-> node.backend_node_id,
   name |-> node.name,
   html_id |-> node.html_id,
   bounds |-> bounds,
   can_scroll_up |-> node.can_scroll_up,
   can_scroll_down |-> node.can_scroll_down,
   can_scroll_left |-> node.can_scroll_left,
   can_scroll_right |-> node.can_scroll_right,
   is_select |-> node.is_select,
   options |-> node.options,
   option_values |-> node.option_values,
   kind |-> IF node.is_select THEN "SelectInputElement" ELSE "Element",
   text |-> <<>>,
   selected |-> FALSE]

RECURSIVE ExtractFrom(_, _, _)
ExtractFrom(nodes, node_id, visible_rect) ==
  IF node_id > Len(nodes) THEN <<>>
  ELSE LET node == nodes[node_id]
           bounds == clip_to(node.bounds, visible_rect)
           rest == ExtractFrom(nodes, node_id + 1, visible_rect)
       IN IF ~intersects_with(node.bounds, visible_rect) THEN rest
          ELSE IF bounds.width * bounds.height < 2 THEN rest
          ELSE <<MakeElement(node, node_id, bounds)>> \o rest

\* the interactive candidates of one document, in node order
get_elements_in_viewport(document, visible_rect) ==
  ExtractFrom(document.nodes, 1, visible_rect)

\* text_content(document, ..., node_id): the label of a node
text_content(document, node_id) == document.nodes[node_id].text

(***************************************************************************)
(* Visibility verifier                                                     *)
(***************************************************************************)
None == <<>>

key_points(element) ==
  LET b == element.bounds
  IN << <<b.x + (b.width \div 2), b.y + (b.height \div 2)>>,
        <<b.x, b.y>>,
        <<b.x + b.width, b.y>>,
        <<b.x, b.y + b.height>>,
        <<b.x + b.width, b.y + b.height>> >>

InRect(visible_rect, p) == contains(visible_rect, p[1], p[2])

points_in_viewport(element, visible_rect) ==
  LET kp == key_points(element)
      RECURSIVE Keep(_)
      Keep(i) == IF i > Len(kp) THEN <<>>
                 ELSE IF InRect(visible_rect, kp[i]) THEN <<kp[i]>> \o Keep(i + 1)
                 ELSE Keep(i + 1)
  IN Keep(1)

\* replies of the browser to one candidate's probes: DOM.describeNode gives
\* the backend ids of the subtree or fails; each DOM.getNodeForLocation
\* gives a backend id or fails
DescendantOf(element) == element.backend_node_id + 100

\* a node outside the element's subtree that is painted over it
Occluder(element) == element.backend_node_id + 200

HitReplies(element) ==
  { [ok |-> FALSE, backendNodeId |-> Occluder(element)],
    [ok |-> TRUE, backendNodeId |-> DescendantOf(element)],
    [ok |-> TRUE, backendNodeId |-> Occluder(element)] }

\* the hit tests of one candidate: the reply at the first point in viewport
\* (the center) and the common reply at the other points
PointReplies(element, n) ==
  { [i \in 1..n |-> IF i = 1 THEN first ELSE others] :
      first \in HitReplies(element), others \in HitReplies(element) }

\* when DOM.describeNode fails the hit tests are never awaited, so no
\* reply of theirs is read
ProbeReplies(element, visible_rect) ==
  LET n == Len(points_in_viewport(element, visible_rect))
      ids == {element.backend_node_id, DescendantOf(element)}
  IN { [root_ok |-> TRUE, child_ids |-> ids, points |-> p] :
         p \in PointReplies(element, n) }
     \cup
     { [root_ok |-> FALSE, child_ids |-> {},
        points |-> [i \in 1..n |-> [ok |-> FALSE,
                                    backendNodeId |-> Occluder(element)]]] }

\* _is_element_visible: the first point in viewport whose hit test
\* succeeded with a node of the subtree; None when describeNode failed
\* or no point qualifies
FirstHit(pts, replies, child_ids, idx) ==
  LET Good(i) == replies[i].ok /\ replies[i].backendNodeId \in child_ids
  IN IF \E i \in idx..Len(pts) : Good(i)
     THEN pts[CHOOSE i \in idx..Len(pts) :
                 Good(i) /\ \A j \in idx..(i - 1) : ~Good(j)]
     ELSE None

\* mutant: the point of the hit test that completed first is taken
is_element_visible_first_completed(element, visible_rect, reply) ==
  IF ~reply.root_ok THEN None
  ELSE LET pts == points_in_viewport(element, visible_rect)
           order == IF "order" \in DOMAIN reply THEN reply.order
                    ELSE [k \in 1..Len(pts) |-> k]
           Good(i) == reply.points[i].ok
                      /\ reply.points[i].backendNodeId \in reply.child_ids
       IN IF \E k \in 1..Len(pts) : Good(order[k])
          THEN pts[order[CHOOSE k \in 1..Len(pts) :
                     /\ Good(order[k])
                     /\ \A j \in 1..(k - 1) : ~Good(order[j])]]
          ELSE None

\* mutant: one failed probe makes the whole element invisible
is_element_visible_strict(element, visible_rect, reply) ==
  IF ~reply.root_ok \/ \E i \in DOMAIN reply.points : ~reply.points[i].ok
  THEN None
  ELSE FirstHit(points_in_viewport(element, visible_rect), reply.points,
                reply.child_ids, 1)

is_element_visible(element, visible_rect, reply) ==
  IF ~reply.root_ok THEN None
  ELSE FirstHit(points_in_viewport(element, visible_rect), reply.points,
                reply.child_ids, 1)

(***************************************************************************)
(* Annotator                                                               *)
(***************************************************************************)
\* str.lower() of str(b) for a bool b
PyBoolLower(b) == IF b THEN "true" ELSE "false"

\* the value of an InputTag (lines 197-201): None, or <<v>> for the string v
input_value(element) ==
  IF element.kind = "TextInputElement" THEN <<element.text>>
  ELSE IF element.kind = "CheckableInputElement"
    THEN <<PyBoolLower(element.selected)>>
  ELSE None

\* _convert_to_tag: the tag kind is switched on the element
convert_to_tag(id_number, element, inner_text) ==
  [tag_name |-> IF element.name = "INPUT" THEN "INPUT"
                ELSE IF element.is_select THEN "SELECT"
                ELSE IF element.name \in {"A", "a"} THEN "A"
                ELSE element.name,
   annotation_number |-> id_number,
   inner_text |-> inner_text,
   html_id |-> element.html_id,
   can_scroll_up |-> element.can_scroll_up,
   can_scroll_down |-> element.can_scroll_down,
   can_scroll_left |-> element.can_scroll_left,
   can_scroll_right |-> element.can_scroll_right,
   options |-> IF element.is_select THEN element.options ELSE NoOptions,
   value |-> IF element.name = "INPUT" THEN input_value(element) ELSE None]

EmptyMap == [k \in {} |-> None]

\* dict.get(key, default)
DictGet(d, k, default) == IF k \in DOMAIN d THEN d[k] ELSE default

\* d[k] = v on a dict
DictSet(d, k, v) == [x \in (DOMAIN d) \cup {k} |-> IF x = k THEN v ELSE d[x]]

\* mutant: the tags are numbered from 1
as_tags_from_one(elements, node_inner_text) ==
  [i \in 1..Len(elements) |->
     convert_to_tag(i, elements[i],
                    DictGet(node_inner_text, elements[i].backend_node_id, ""))]

\* enumerate(elements) is 0-based; the table is a 1-based sequence here
as_tags(elements, node_inner_text) ==
  [i \in 1..Len(elements) |->
     convert_to_tag(i - 1, elements[i],
                    DictGet(node_inner_text, elements[i].backend_node_id, ""))]

\* {str(i): t for i, t in enumerate(as_tags)}
tag_dict(tags) ==
  [k \in {PyStr(i - 1) : i \in 1..Len(tags)} |->
     tags[CHOOSE i \in 1..Len(tags) : PyStr(i - 1) = k]]

(***************************************************************************)
(* State                                                                   *)
(***************************************************************************)
VARIABLES
  tagged_elements,         \* self._tagged_elements
  backend_node_id_point,   \* self._backend_node_id_point
  t_pc,                    \* where the tagify() coroutine is suspended
  t_visible_rect,          \* tagify local visible_rect
  t_docs,                  \* documents of the snapshot not yet processed
  t_interactive,           \* tagify local interactive (current document)
  t_visible_points,        \* results of the visibility tasks finished so far
  t_elements,              \* tagify local elements
  t_points,                \* tagify local backend_node_id_point
  t_texts,                 \* tagify local node_inner_text
  t_result,                \* outcome of the last tagify() call
  t_tags,                  \* mapping returned by the last tagify() call
  t_confirmed,             \* history: per finished visibility task, whether
                           \* some hit test of it succeeded inside the subtree
  t_probe_error,           \* history: a probe of this pass got a protocol error
  issued_prev,             \* history: how many numbers the pass before the
                           \* last one had issued into the table it replaced
  untagged,                \* history: untagify() ran after the last pass
  a_pc,                    \* where the action coroutine is suspended
  a_call,                  \* the action called last and its arguments
  a_local,                 \* its locals: point, object group, pending error
  a_todo,                  \* protocol messages it still has to send
  a_sent,                  \* protocol messages it has sent, in order
  a_result,                \* its outcome
  a_return,                \* its return value
  x_call,                  \* a function of the tagging package and its arguments
  x_ret,                   \* what the function returned, once it was applied
  b_contexts,              \* AsyncCDPBrowser._contexts (its keys)
  b_pages,                 \* AsyncCDPBrowser._pages (page id -> context id)
  b_active_context,        \* AsyncCDPBrowser._active_context
  b_active_page,           \* AsyncCDPBrowser._active_page
  b_pc,                    \* where create_page() is suspended
  b_last,                  \* the pass-through method called last, and how many were
  b_received               \* history: the calls each page object received

tagify_vars ==
  <<t_pc, t_visible_rect, t_docs, t_interactive, t_visible_points, t_elements,
    t_points, t_texts, t_result, t_tags, t_confirmed, t_probe_error>>

table_vars == <<tagged_elements, backend_node_id_point>>

history_vars == <<issued_prev, untagged>>

action_vars == <<a_pc, a_call, a_local, a_todo, a_sent, a_result, a_return>>

fn_vars == <<x_call, x_ret>>

browser_vars ==
  <<b_contexts, b_pages, b_active_context, b_active_page, b_pc, b_last,
    b_received>>

vars ==
  <<table_vars, tagify_vars, history_vars, action_vars, fn_vars, browser_vars>>

\* a protocol message: the method and the parameters the model follows
Msg(method) ==
  [method |-> method, node |-> 0, x |-> 0, y |-> 0, text |-> "", group |-> 0]

NoCall == [op |-> "none", id |-> <<>>, arg |-> ""]

NoLocal ==
  [point |-> None, rect |-> NoRect, group |-> 0, error |-> "", reply |-> ""]

TagifyLocalsCleared ==
  /\ t_visible_rect' = NoRect
  /\ t_docs' = <<>>
  /\ t_interactive' = <<>>
  /\ t_visible_points' = <<>>
  /\ t_elements' = <<>>
  /\ t_points' = EmptyMap
  /\ t_texts' = EmptyMap
  /\ t_confirmed' = <<>>

\* no function of the tagging package is being applied
NoInput == [fn |-> "none"]

FnIdle == x_call = NoInput /\ x_ret = None

\* AsyncCDPBrowser.__init__
NoPage == ""

NoLast == [op |-> "none", page |-> NoPage, result |-> "none", n |-> 0]

BrowserInit ==
  /\ b_contexts = {}
  /\ b_pages = EmptyMap
  /\ b_active_context = NoPage
  /\ b_active_page = NoPage
  /\ b_pc = [at |-> "idle", context_id |-> NoPage]
  /\ b_last = NoLast
  /\ b_received = EmptyMap

\* AsyncCDPBrowserPage.__init__
PageInit ==
  /\ tagged_elements = <<>>
  /\ backend_node_id_point = EmptyMap
  /\ t_pc = "idle"
  /\ t_visible_rect = NoRect
  /\ t_docs = <<>>
  /\ t_interactive = <<>>
  /\ t_visible_points = <<>>
  /\ t_elements = <<>>
  /\ t_points = EmptyMap
  /\ t_texts = EmptyMap
  /\ t_result = "none"
  /\ t_tags = EmptyMap
  /\ t_confirmed = <<>>
  /\ t_probe_error = FALSE
  /\ issued_prev = 0
  /\ untagged = FALSE
  /\ a_pc = "idle"
  /\ a_call = NoCall
  /\ a_local = NoLocal
  /\ a_todo = <<>>
  /\ a_sent = <<>>
  /\ a_result = "none"
  /\ a_return = None

Init == PageInit /\ FnIdle /\ BrowserInit

(***************************************************************************)
(* tagify()                                                                *)
(***************************************************************************)
\* an exception leaves tagify(): the locals are dropped, self is untouched
TagifyRaise(cause) ==
  /\ t_pc' = "idle"
  /\ t_result' = cause
  /\ t_tags' = EmptyMap
  /\ TagifyLocalsCleared
  /\ UNCHANGED <<fn_vars, browser_vars, table_vars, history_vars, action_vars, t_probe_error>>

\* lines 404-410: both fields are assigned with no await in between
TagifyInstall(elements, points, texts) ==
  /\ tagged_elements' = elements
  /\ backend_node_id_point' = points
  /\ t_tags' = tag_dict(as_tags(elements, texts))
  /\ t_result' = "ok"
  /\ t_pc' = "idle"
  /\ TagifyLocalsCleared
  /\ issued_prev' = Len(tagged_elements)
  /\ untagged' = FALSE
  /\ UNCHANGED <<fn_vars, browser_vars, action_vars, t_probe_error>>

\* mutant: the loop writes each document's results through to self
TagifyLoopInPlace(visible_rect, docs, elements, points, texts) ==
  IF docs = <<>> THEN TagifyInstall(elements, points, texts)
  ELSE IF Head(docs).raises THEN TagifyRaise("extract_error")
  ELSE /\ t_pc' = "gather"
       /\ t_visible_rect' = visible_rect
       /\ t_docs' = docs
       /\ t_interactive' = get_elements_in_viewport(Head(docs), visible_rect)
       /\ t_visible_points' = <<>>
       /\ t_confirmed' = <<>>
       /\ t_elements' = elements
       /\ t_points' = points
       /\ t_texts' = texts
       /\ tagged_elements' = elements
       /\ backend_node_id_point' = points
       /\ UNCHANGED <<fn_vars, browser_vars, history_vars, action_vars, t_result, t_tags, t_probe_error>>

\* the for loop over the documents up to its next await (or to the end)
TagifyLoop(visible_rect, docs, elements, points, texts) ==
  IF docs = <<>> THEN TagifyInstall(elements, points, texts)
  ELSE IF Head(docs).raises THEN TagifyRaise("extract_error")
  ELSE /\ t_pc' = "gather"
       /\ t_visible_rect' = visible_rect
       /\ t_docs' = docs
       /\ t_interactive' = get_elements_in_viewport(Head(docs), visible_rect)
       /\ t_visible_points' = <<>>
       /\ t_confirmed' = <<>>
       /\ t_elements' = elements
       /\ t_points' = points
       /\ t_texts' = texts
       /\ UNCHANGED <<fn_vars, browser_vars, table_vars, history_vars, action_vars, t_result, t_tags,
                      t_probe_error>>

\* tagify() is called: it runs up to its first await, inside page_details
TagifyCall ==
  /\ t_pc = "idle"
  /\ t_pc' = "visible_rect"
  /\ t_result' = "running"
  /\ t_tags' = EmptyMap
  /\ t_probe_error' = FALSE
  /\ TagifyLocalsCleared
  /\ UNCHANGED <<fn_vars, browser_vars, table_vars, history_vars, action_vars>>

\* line 332: _get_visible_rect() returns
TagifyVisibleRect ==
  /\ t_pc = "visible_rect"
  /\ \E scroll_y \in 0..MaxScroll :
       /\ t_pc' = "snapshot"
       /\ t_visible_rect' = VisibleRect(scroll_y)
  /\ UNCHANGED <<fn_vars, browser_vars, table_vars, history_vars, action_vars, t_docs, t_interactive,
                 t_visible_points, t_elements, t_points, t_texts, t_result,
                 t_tags, t_confirmed, t_probe_error>>

\* line 332: Page.getLayoutMetrics or Page.getNavigationHistory fails
TagifyVisibleRectFails ==
  /\ t_pc = "visible_rect"
  /\ TagifyRaise("protocol_error")

\* lines 333-378: DOMSnapshot.captureSnapshot returns; the loop starts
TagifySnapshot ==
  /\ t_pc = "snapshot"
  /\ \E snapshot \in Snapshots :
       TagifyLoop(t_visible_rect, snapshot, <<>>, EmptyMap, EmptyMap)

\* line 335: DOMSnapshot.captureSnapshot fails
TagifySnapshotFails ==
  /\ t_pc = "snapshot"
  /\ TagifyRaise("protocol_error")

\* whether a probe reply holds a successful hit test inside the subtree
ReplyConfirms(reply) ==
  /\ reply.root_ok
  /\ \E i \in DOMAIN reply.points :
       reply.points[i].ok /\ reply.points[i].backendNodeId \in reply.child_ids

ReplyHasError(reply) ==
  \/ ~reply.root_ok
  \/ \E i \in DOMAIN reply.points : ~reply.points[i].ok

\* lines 382-385: one visibility task of the gather finishes.  The tasks
\* share no state, so they are taken in the order of their results.
TagifyProbe ==
  /\ t_pc = "gather"
  /\ Len(t_visible_points) < Len(t_interactive)
  /\ LET element == t_interactive[Len(t_visible_points) + 1]
     IN \E reply \in ProbeReplies(element, t_visible_rect) :
          /\ t_visible_points' =
               Append(t_visible_points,
                      is_element_visible(element, t_visible_rect, reply))
          /\ t_confirmed' = Append(t_confirmed, ReplyConfirms(reply))
          /\ t_probe_error' = (t_probe_error \/ ReplyHasError(reply))
  /\ UNCHANGED <<fn_vars, browser_vars, table_vars, history_vars, action_vars, t_pc, t_visible_rect, t_docs,
                 t_interactive, t_elements, t_points, t_texts, t_result, t_tags>>

\* mutant: an element without a confirming point is kept in the table
RECURSIVE CollectUnconfirmed(_, _, _, _, _, _, _)
CollectUnconfirmed(document, interactive, visible_points, i, elements, points, texts) ==
  IF i > Len(interactive) THEN <<elements, points, texts>>
  ELSE LET e == interactive[i]
           pt == visible_points[i]
       IN IF pt = None
          THEN CollectUnconfirmed(document, interactive, visible_points, i + 1,
                                  Append(elements, e), points, texts)
          ELSE CollectUnconfirmed(document, interactive, visible_points, i + 1,
                                  Append(elements, e),
                                  DictSet(points, e.backend_node_id, pt),
                                  DictSet(texts, e.backend_node_id,
                                          text_content(document, e.node_id)))

\* lines 388-402: the zip loop over (interactive, visible_points) from
\* position i, as the triple <<elements, backend_node_id_point, node_inner_text>>
RECURSIVE Collect(_, _, _, _, _, _, _)
Collect(document, interactive, visible_points, i, elements, points, texts) ==
  IF i > Len(interactive) THEN <<elements, points, texts>>
  ELSE LET e == interactive[i]
           pt == visible_points[i]
       IN IF pt = None
          THEN Collect(document, interactive, visible_points, i + 1,
                       elements, points, texts)
          ELSE Collect(document, interactive, visible_points, i + 1,
                       Append(elements, e),
                       DictSet(points, e.backend_node_id, pt),
                       DictSet(texts, e.backend_node_id,
                               text_content(document, e.node_id)))

\* lines 385-410: the gather returns; the document's results are collected
\* and the loop goes on to the next document, or to the end
TagifyGather ==
  /\ t_pc = "gather"
  /\ Len(t_visible_points) = Len(t_interactive)
  /\ LET got == Collect(Head(t_docs), t_interactive, t_visible_points, 1,
                        t_elements, t_points, t_texts)
     IN TagifyLoop(t_visible_rect, Tail(t_docs), got[1], got[2], got[3])

(***************************************************************************)
(* untagify()                                                              *)
(***************************************************************************)
\* mutant: only the point map is reset
UntagifyKeepsElements ==
  /\ backend_node_id_point' = EmptyMap
  /\ untagged' = TRUE
  /\ UNCHANGED <<fn_vars, browser_vars, tagged_elements, tagify_vars, issued_prev, action_vars>>

Untagify ==
  /\ tagged_elements' = <<>>
  /\ backend_node_id_point' = EmptyMap
  /\ untagged' = TRUE
  /\ UNCHANGED <<fn_vars, browser_vars, tagify_vars, issued_prev, action_vars>>

(***************************************************************************)
(* Actions addressed by annotation number                                  *)
(***************************************************************************)
\* the annotation numbers a caller may pass, as strings
IdStrings == {PyStr(i) : i \in (0 - MaxNumber)..MaxNumber} \cup {<<"x">>}

NoElement == MakeElement(Node(0, "", "", NoRect, FALSE, FALSE, FALSE,
                              NoOptions, NoOptions, ""), 0, NoRect)

\* list[i] of Python: a negative index counts from the end
PyIndex(list, i) ==
  IF 0 <= i /\ i < Len(list) THEN [err |-> "", element |-> list[i + 1]]
  ELSE IF i < 0 /\ 0 - Len(list) <= i
       THEN [err |-> "", element |-> list[Len(list) + i + 1]]
       ELSE [err |-> "IndexError", element |-> NoElement]

\* self._tagged_elements[int(element_webrock_id)]
Lookup(table, element_webrock_id) ==
  LET n == PyInt(element_webrock_id)
  IN IF ~n.ok THEN [err |-> "ValueError", element |-> NoElement]
     ELSE PyIndex(table, n.val)

\* mutant: the flag of the axis is read, not the flag of the direction
CanScrollAxis(element, direction) ==
  IF direction \in {"up", "down"}
  THEN element.can_scroll_up \/ element.can_scroll_down
  ELSE element.can_scroll_left \/ element.can_scroll_right

\* getattr(element, f"can_scroll_{direction}")
CanScroll(element, direction) ==
  CASE direction = "up" -> element.can_scroll_up
    [] direction = "down" -> element.can_scroll_down
    [] direction = "left" -> element.can_scroll_left
    [] direction = "right" -> element.can_scroll_right

\* list.index(x): the first position (0-based) holding x
ListIndex(list, x) ==
  (CHOOSE i \in 1..Len(list) : list[i] = x /\ \A j \in 1..(i - 1) : list[j] # x) - 1

InList(list, x) == \E i \in 1..Len(list) : list[i] = x

\* the call is rejected before its first await: nothing was sent
Rejected(call, err) ==
  /\ a_pc' = "idle"
  /\ a_call' = call
  /\ a_local' = NoLocal
  /\ a_todo' = <<>>
  /\ a_sent' = <<>>
  /\ a_result' = err
  /\ a_return' = None

\* the call suspends at its first await, with `todo` left to send
Started(call, pc, local, todo) ==
  /\ a_pc' = pc
  /\ a_call' = call
  /\ a_local' = local
  /\ a_todo' = todo
  /\ a_sent' = <<>>
  /\ a_result' = "running"
  /\ a_return' = None

Call(op, id, arg) == [op |-> op, id |-> id, arg |-> arg]

\* the four requests of page_details: url, viewport, dimensions, title
PageDetailsMsgs ==
  <<Msg("Page.getNavigationHistory"), Msg("Page.getLayoutMetrics"),
    Msg("Page.getLayoutMetrics"), Msg("Page.getNavigationHistory")>>

MouseEvent(type, x, y) ==
  [Msg("Input.dispatchMouseEvent") EXCEPT !.text = type, !.x = x, !.y = y]

\* click(): lines 416-419, up to the await of _get_visible_rect()
ClickCall(id) ==
  /\ a_pc = "idle"
  /\ LET found == Lookup(tagged_elements, id)
         call == Call("click", id, "")
     IN IF found.err # "" THEN Rejected(call, found.err)
        ELSE IF found.element.backend_node_id \notin DOMAIN backend_node_id_point
        THEN Rejected(call, "KeyError")
        ELSE Started(call, "click_rect",
                     [NoLocal EXCEPT
                        !.point = backend_node_id_point[found.element.backend_node_id]],
                     PageDetailsMsgs)
  /\ UNCHANGED <<fn_vars, browser_vars, table_vars, tagify_vars, history_vars>>

\* mutant: the events are sent at the page coordinates of the point
ClickEventsAbsolute(visible_rect, abs_point) ==
  <<MouseEvent("mouseMoved", abs_point[1], abs_point[2]),
    MouseEvent("mousePressed", abs_point[1], abs_point[2]),
    MouseEvent("mouseReleased", abs_point[1], abs_point[2]),
    MouseEvent("mouseMoved", abs_point[1], abs_point[2])>>

\* click(): lines 420-457, the mouse events at the point relative to the viewport
ClickEvents(visible_rect, abs_point) ==
  LET p == relative_point(visible_rect, abs_point[1], abs_point[2])
  IN <<MouseEvent("mouseMoved", p[1], p[2]),
       MouseEvent("mousePressed", p[1], p[2]),
       MouseEvent("mouseReleased", p[1], p[2]),
       MouseEvent("mouseMoved", p[1], p[2])>>

\* focus(): lines 459-466
FocusMsgs(element) ==
  <<[Msg("DOM.focus") EXCEPT !.node = element.backend_node_id]>>

\* mutant: the element is popped off the table
FocusCallPops(id) ==
  /\ a_pc = "idle"
  /\ LET found == Lookup(tagged_elements, id)
         call == Call("focus", id, "")
     IN IF found.err # ""
        THEN Rejected(call, found.err) /\ UNCHANGED table_vars
        ELSE /\ Started(call, "send", NoLocal, FocusMsgs(found.element))
             /\ tagged_elements' =
                  SelectSeq(tagged_elements, LAMBDA e : e # found.element)
             /\ UNCHANGED backend_node_id_point
  /\ UNCHANGED <<fn_vars, browser_vars, tagify_vars, history_vars>>

FocusCall(id) ==
  /\ a_pc = "idle"
  /\ LET found == Lookup(tagged_elements, id)
         call == Call("focus", id, "")
     IN IF found.err # "" THEN Rejected(call, found.err)
        ELSE Started(call, "send", NoLocal, FocusMsgs(found.element))
  /\ UNCHANGED <<fn_vars, browser_vars, table_vars, tagify_vars, history_vars>>

\* enter_text(): lines 554-569; it starts with focus()
EnterTextMsgs(element, text) ==
  FocusMsgs(element) \o
  <<[Msg("Input.dispatchKeyEvent") EXCEPT !.text = "keyDown selectAll delete"],
    [Msg("Input.dispatchKeyEvent") EXCEPT !.text = "keyUp selectAll delete"],
    [Msg("Input.insertText") EXCEPT !.text = text]>>

EnterTextCall(id, text) ==
  /\ a_pc = "idle"
  /\ LET found == Lookup(tagged_elements, id)
         call == Call("enter_text", id, text)
     IN IF found.err # "" THEN Rejected(call, found.err)
        ELSE Started(call, "send", NoLocal, EnterTextMsgs(found.element, text))
  /\ UNCHANGED <<fn_vars, browser_vars, table_vars, tagify_vars, history_vars>>

\* the body of `async with object_group(...)`: resolve the node, call the
\* function on it; the release is sent by the finally clause
GroupMsgs(element, group, value) ==
  <<[Msg("DOM.resolveNode") EXCEPT !.node = element.backend_node_id, !.group = group],
    [Msg("Runtime.callFunctionOn") EXCEPT !.node = element.backend_node_id,
                                          !.text = value]>>

ReleaseMsg(group) == [Msg("Runtime.releaseObjectGroup") EXCEPT !.group = group]

Directions == {"up", "down", "left", "right"}

\* scroll(): lines 487-552
ScrollCall(id, direction) ==
  /\ a_pc = "idle"
  /\ LET found == Lookup(tagged_elements, id)
         call == Call("scroll", id, direction)
     IN IF found.err # "" THEN Rejected(call, found.err)
        ELSE IF direction \notin Directions THEN Rejected(call, "ValueError")
        ELSE IF ~CanScroll(found.element, direction)
        THEN Rejected(call, "ValueError")
        ELSE \E group \in 1..NumGroups :
               Started(call, "send", [NoLocal EXCEPT !.group = group],
                       GroupMsgs(found.element, group, direction))
  /\ UNCHANGED <<fn_vars, browser_vars, table_vars, tagify_vars, history_vars>>

\* mutant: the last option of that text is taken
option_value_last(element, option) ==
  element.option_values[
    CHOOSE i \in 1..Len(element.options) :
      /\ element.options[i] = option
      /\ \A j \in (i + 1)..Len(element.options) : element.options[j] # option]

\* select(): lines 592-604, the value that goes with the requested option
option_value(element, option) ==
  element.option_values[ListIndex(element.options, option) + 1]

\* select(): lines 592-630
SelectCall(id, option) ==
  /\ a_pc = "idle"
  /\ LET found == Lookup(tagged_elements, id)
         call == Call("select", id, option)
     IN IF found.err # "" THEN Rejected(call, found.err)
        ELSE IF ~found.element.is_select THEN Rejected(call, "ValueError")
        ELSE IF ~InList(found.element.options, option)
        THEN Rejected(call, "ValueError")
        ELSE \E group \in 1..NumGroups :
               Started(call, "send", [NoLocal EXCEPT !.group = group],
                       GroupMsgs(found.element, group,
                                 option_value(found.element, option)))
  /\ UNCHANGED <<fn_vars, browser_vars, table_vars, tagify_vars, history_vars>>

\* hover(): lines 468-485
HoverCall(x, y) ==
  /\ a_pc = "idle"
  /\ Started(Call("hover", <<>>, ""), "send", NoLocal,
             <<MouseEvent("mouseMoved", x, y), MouseEvent("mouseMoved", x, y)>>)
  /\ UNCHANGED <<fn_vars, browser_vars, table_vars, tagify_vars, history_vars>>

\* str.lower() on the key names a caller may pass
KeyLower(key) ==
  CASE key = "PageDown" -> "pagedown"
    [] key = "Enter" -> "enter"
    [] OTHER -> key

\* the names KEY_TO_VK knows
KEY_TO_VK == {"pagedown", "enter"}

\* press_key(): lines 571-590
PressKeyCall(key) ==
  /\ a_pc = "idle"
  /\ IF KeyLower(key) \notin KEY_TO_VK
     THEN Rejected(Call("press_key", <<>>, key), "KeyError")
     ELSE Started(Call("press_key", <<>>, key), "send", NoLocal,
                  <<[Msg("Input.dispatchKeyEvent") EXCEPT
                       !.text = "keyDown " \o KeyLower(key)],
                    [Msg("Input.dispatchKeyEvent") EXCEPT
                       !.text = "keyUp " \o KeyLower(key)]>>)
  /\ UNCHANGED <<fn_vars, browser_vars, table_vars, tagify_vars, history_vars>>

\* goto(): lines 290-295
GotoCall(url) ==
  /\ a_pc = "idle"
  /\ Started(Call("goto", <<>>, url), "send", NoLocal,
             <<[Msg("Page.navigate") EXCEPT !.text = url]>>)
  /\ UNCHANGED <<fn_vars, browser_vars, table_vars, tagify_vars, history_vars>>

\* take_screenshot(): lines 297-303
TakeScreenshotCall ==
  /\ a_pc = "idle"
  /\ Started(Call("take_screenshot", <<>>, ""), "send", NoLocal,
             <<Msg("Page.captureScreenshot")>> \o PageDetailsMsgs)
  /\ UNCHANGED <<fn_vars, browser_vars, table_vars, tagify_vars, history_vars>>

(***************************************************************************)
(* The awaits of an action: each protocol message is sent and answered     *)
(***************************************************************************)
InObjectGroup == a_call.op \in {"scroll", "select"}

\* ScreenshotDetails (browser/base.py)
ScreenshotDetails(b64_image, error) == [b64_image |-> b64_image, error |-> error]

\* the action returns or raises
Finish(reply, result, return) ==
  /\ a_pc' = "idle"
  /\ a_local' = [a_local EXCEPT !.reply = reply]
  /\ a_todo' = <<>>
  /\ a_result' = result
  /\ a_return' = return

\* what the coroutine does once its last pending message was answered
AfterLastReply(msg) ==
  IF a_pc = "click_rect"
  THEN \E scroll_y \in 0..MaxScroll :
         /\ a_pc' = "send"
         /\ a_todo' = ClickEvents(VisibleRect(scroll_y), a_local.point)
         /\ a_local' = [a_local EXCEPT !.reply = "ok",
                                        !.rect = VisibleRect(scroll_y)]
         /\ UNCHANGED <<a_result, a_return>>
  ELSE IF InObjectGroup /\ msg.method # "Runtime.releaseObjectGroup"
  THEN /\ a_todo' = <<ReleaseMsg(a_local.group)>>
       /\ a_local' = [a_local EXCEPT !.reply = "ok"]
       /\ UNCHANGED <<a_pc, a_result, a_return>>
  ELSE IF a_call.op = "take_screenshot"
  THEN Finish("ok", "ok", ScreenshotDetails("annotated", ""))
  ELSE Finish("ok", IF a_local.error # "" THEN a_local.error ELSE "ok", None)

\* the next message is sent and the browser answers it
ActionReply ==
  /\ a_pc \in {"send", "click_rect"}
  /\ a_todo # <<>>
  /\ LET msg == Head(a_todo)
     IN /\ a_sent' = Append(a_sent, msg)
        /\ IF Tail(a_todo) = <<>> THEN AfterLastReply(msg)
           ELSE /\ a_todo' = Tail(a_todo)
                /\ a_local' = [a_local EXCEPT !.reply = "ok"]
                /\ UNCHANGED <<a_pc, a_result, a_return>>
  /\ UNCHANGED <<fn_vars, browser_vars, table_vars, tagify_vars, history_vars, a_call>>

\* mutant: the object group has no finally clause, an error leaves at once
ActionProtocolErrorLeaks ==
  /\ a_pc \in {"send", "click_rect"}
  /\ a_todo # <<>>
  /\ a_sent' = Append(a_sent, Head(a_todo))
  /\ Finish("protocol_error", "protocol_error", None)
  /\ UNCHANGED <<fn_vars, browser_vars, table_vars, tagify_vars, history_vars, a_call>>

\* the next message is sent and a protocol error comes back; inside an
\* object group the finally clause still sends the release
ActionProtocolError ==
  /\ a_pc \in {"send", "click_rect"}
  /\ a_todo # <<>>
  /\ LET msg == Head(a_todo)
     IN /\ a_sent' = Append(a_sent, msg)
        /\ IF InObjectGroup /\ msg.method # "Runtime.releaseObjectGroup"
           THEN /\ a_todo' = <<ReleaseMsg(a_local.group)>>
                /\ a_local' = [a_local EXCEPT !.error = "protocol_error",
                                               !.reply = "protocol_error"]
                /\ UNCHANGED <<a_pc, a_result, a_return>>
           ELSE Finish("protocol_error", "protocol_error", None)
  /\ UNCHANGED <<fn_vars, browser_vars, table_vars, tagify_vars, history_vars, a_call>>

\* mutant: the TimeoutError of take_screenshot() is not caught
TimeoutOutcomeRaises(op) ==
  IF op = "goto" THEN [result |-> "ok", return |-> None]
  ELSE [result |-> "TimeoutError", return |-> None]

\* what a TimeoutError of asyncio.wait_for becomes: goto() suppresses it
\* (line 294), take_screenshot() returns the placeholder (lines 313-315)
TimeoutOutcome(op) ==
  IF op = "goto" THEN [result |-> "ok", return |-> None]
  ELSE [result |-> "ok",
        return |-> ScreenshotDetails("not_available", "unavailable")]

\* the next message is sent and asyncio.wait_for gives up on it
ActionTimeout ==
  /\ a_pc = "send"
  /\ a_todo # <<>>
  /\ a_call.op \in {"goto", "take_screenshot"}
  /\ a_sent' = Append(a_sent, Head(a_todo))
  /\ Finish("timeout", TimeoutOutcome(a_call.op).result,
            TimeoutOutcome(a_call.op).return)
  /\ UNCHANGED <<fn_vars, browser_vars, table_vars, tagify_vars, history_vars, a_call>>

\* the caller has taken the outcome of the action
ActionReturn ==
  /\ a_pc = "idle"
  /\ a_result # "none"
  /\ a_call' = NoCall
  /\ a_local' = NoLocal
  /\ a_todo' = <<>>
  /\ a_sent' = <<>>
  /\ a_result' = "none"
  /\ a_return' = None
  /\ UNCHANGED <<fn_vars, browser_vars, a_pc, table_vars, tagify_vars, history_vars>>

(***************************************************************************)
(* The page session driven by one caller: a call is made when the          *)
(* previous one has returned                                               *)
(***************************************************************************)
Quiet == t_pc = "idle" /\ a_pc = "idle" /\ a_result = "none"

OptionInputs == {"a", "b", "zz"}

DirectionInputs == Directions \cup {"sideways"}

KeyInputs == {"PageDown", "F13"}

Next ==
  \/ Quiet /\ TagifyCall
  \/ TagifyVisibleRect
  \/ TagifyVisibleRectFails
  \/ TagifySnapshot
  \/ TagifySnapshotFails
  \/ TagifyProbe
  \/ TagifyGather
  \/ Quiet /\ Untagify
  \/ Quiet /\ \E id \in IdStrings : ClickCall(id)
  \/ Quiet /\ \E id \in IdStrings : FocusCall(id)
  \/ Quiet /\ \E id \in IdStrings : EnterTextCall(id, "hi")
  \/ Quiet /\ \E id \in IdStrings : \E d \in DirectionInputs : ScrollCall(id, d)
  \/ Quiet /\ \E id \in IdStrings : \E o \in OptionInputs : SelectCall(id, o)
  \/ Quiet /\ HoverCall(1, 2)
  \/ Quiet /\ \E key \in KeyInputs : PressKeyCall(key)
  \/ Quiet /\ GotoCall("url")
  \/ Quiet /\ TakeScreenshotCall
  \/ ActionReply
  \/ ActionProtocolError
  \/ ActionTimeout
  \/ ActionReturn

Spec == Init /\ [][Next]_vars

(***************************************************************************)
(* The page session with calls that overlap: an action may be called, and  *)
(* its awaits may return, while a tagify() is suspended at one of its own  *)
(* awaits, and untagify() may run in between.                              *)
(***************************************************************************)
OverlapIds == {PyStr(0)}

NextOverlap ==
  \/ TagifyCall
  \/ TagifyVisibleRect
  \/ TagifyVisibleRectFails
  \/ TagifySnapshot
  \/ TagifySnapshotFails
  \/ TagifyProbe
  \/ TagifyGather
  \/ Untagify
  \/ \E id \in OverlapIds : FocusCall(id)
  \/ ActionReply
  \/ ActionProtocolError

SpecOverlap == Init /\ [][NextOverlap]_vars

(***************************************************************************)
(* Properties                                                              *)
(***************************************************************************)
AddressedOps == {"click", "focus", "scroll", "enter_text", "select"}

RejectErrors == {"IndexError", "ValueError", "KeyError"}

\* a step in which an action method is called
CallStep == a_pc = "idle" /\ a_result' # "none" /\ action_vars' # action_vars

\* a step of the action coroutine, its call included
ActionStep == action_vars' # action_vars /\ a_result' # "none"

\* the call of this step is addressed by a string that spells the number n
CalledWithNumber(n) ==
  /\ CallStep
  /\ a_call'.op \in AddressedOps
  /\ PyInt(a_call'.id).ok
  /\ PyInt(a_call'.id).val = n

Numbers == (0 - MaxNumber)..MaxNumber

\* the call of this step was rejected before anything was sent
RejectedNow == a_result' \in RejectErrors /\ a_sent' = <<>> /\ a_todo' = <<>>

\* C1: after a pass A and then a pass B with no untagify in between, a
\* number that pass A issued is not accepted by an addressed action as a
\* handle into pass B's table, and is not a number that pass B issued.
C1_StaleNumberNeverAccepted ==
  [][\A n \in Numbers :
       ( /\ CalledWithNumber(n)
         /\ t_result = "ok" /\ ~untagged
         /\ 0 <= n /\ n < issued_prev )
       => (RejectedNow /\ a_call'.id \notin DOMAIN t_tags)]_vars

\* C2: an addressed action called with a number outside 0..n-1, n the length
\* of the table, is rejected, sends nothing and leaves the table and the
\* point map unchanged.
C2_OutOfRangeRejected ==
  [][\A n \in Numbers :
       ( /\ CalledWithNumber(n)
         /\ ~(0 <= n /\ n < Len(tagged_elements)) )
       => (RejectedNow /\ UNCHANGED table_vars)]_vars

\* C3: once untagify() has run after a tagging pass, the table and the
\* point map are empty and every addressed action, whatever its number,
\* fails without sending anything.
C3_UntagifyLeavesNothingAddressable ==
  untagged =>
    /\ tagged_elements = <<>>
    /\ backend_node_id_point = EmptyMap
    /\ (a_call.op \in AddressedOps /\ a_result # "none")
         => (a_result \in RejectErrors /\ a_sent = <<>> /\ a_todo = <<>>)

C3_Witness ==
  /\ untagged
  /\ t_result = "ok"
  /\ a_call.op = "click"
  /\ a_call.id \in DOMAIN t_tags
  /\ a_result = "IndexError"

\* C4: no step of click, focus, hover, scroll, enter_text, press_key,
\* select, goto or take_screenshot changes the table or the point map; a
\* step that changes them is the end of a tagify() or an untagify().
C4_ActionsLeaveTableAlone ==
  [][ /\ ActionStep => UNCHANGED table_vars
      /\ (table_vars' # table_vars)
           => \/ (t_pc # "idle" /\ t_pc' = "idle" /\ t_result' = "ok")
              \/ (untagged' /\ tagged_elements' = <<>>
                    /\ backend_node_id_point' = EmptyMap) ]_vars

C4_Witness ==
  /\ tagged_elements # <<>>
  /\ a_call.op = "select"
  /\ a_result = "ok"
  /\ Len(a_sent) = 3

\* C5: scroll(n, d) with n a valid number and d one of up, down, left,
\* right fails with an error and sends nothing when the element's
\* can_scroll_d flag is false.
C5_ScrollFlagUnsetRejected ==
  [][\A n \in Numbers : \A d \in Directions :
       ( /\ CalledWithNumber(n)
         /\ a_call'.op = "scroll" /\ a_call'.arg = d
         /\ 0 <= n /\ n < Len(tagged_elements)
         /\ ~( \/ d = "up" /\ tagged_elements[n + 1].can_scroll_up
               \/ d = "down" /\ tagged_elements[n + 1].can_scroll_down
               \/ d = "left" /\ tagged_elements[n + 1].can_scroll_left
               \/ d = "right" /\ tagged_elements[n + 1].can_scroll_right ) )
       => (a_result' = "ValueError" /\ a_sent' = <<>> /\ a_todo' = <<>>)]_vars

C5_Witness ==
  /\ a_call.op = "scroll"
  /\ a_call.arg = "left"
  /\ a_call.id = <<"0">>
  /\ tagged_elements # <<>>
  /\ tagged_elements[1].can_scroll_right
  /\ a_result = "ValueError"

\* C6: select(n, option) fails and sends nothing when the element is not a
\* select or the option is not one of its option texts; otherwise the value
\* it dispatches is the one stored at the position of the first option
\* text equal to the requested option.
C6_SelectValidatesAndMapsOption ==
  [][\A n \in Numbers :
       ( /\ CalledWithNumber(n)
         /\ a_call'.op = "select"
         /\ 0 <= n /\ n < Len(tagged_elements) )
       => LET e == tagged_elements[n + 1]
              Matches == {i \in 1..Len(e.options) : e.options[i] = a_call'.arg}
          IN IF ~e.is_select \/ Matches = {}
             THEN a_result' = "ValueError" /\ a_sent' = <<>> /\ a_todo' = <<>>
             ELSE /\ a_result' = "running"
                  /\ \E i \in Matches :
                       /\ \A j \in Matches : i <= j
                       /\ \A k \in 1..Len(a_todo') :
                            a_todo'[k].method = "Runtime.callFunctionOn"
                              => a_todo'[k].text = e.option_values[i]
                  /\ \E k \in 1..Len(a_todo') :
                       a_todo'[k].method = "Runtime.callFunctionOn"]_vars

\* select "a" on the select whose first and third options both read "a"
C6_Witness ==
  /\ a_call.op = "select"
  /\ a_call.arg = "a"
  /\ a_result = "ok"
  /\ \E k \in 1..Len(a_sent) :
       a_sent[k].method = "Runtime.callFunctionOn" /\ a_sent[k].text = "v1"

\* C7: when the capture call or the page-details retrieval of
\* take_screenshot() times out, it returns normally with the placeholder
\* image and a non-empty error flag, and no step of it changes the table
\* or the point map.
C7_ScreenshotTimeoutDegrades ==
  /\ []( ( /\ a_call.op = "take_screenshot"
           /\ a_pc = "idle"
           /\ a_local.reply = "timeout" )
         => ( /\ a_result = "ok"
              /\ a_return # None
              /\ a_return.b64_image = "not_available"
              /\ a_return.error # "" ) )
  /\ [][(ActionStep /\ a_call'.op = "take_screenshot")
          => UNCHANGED table_vars]_vars

\* the page-details retrieval timed out, after the capture had succeeded
C7_Witness ==
  /\ a_call.op = "take_screenshot"
  /\ a_pc = "idle"
  /\ a_local.reply = "timeout"
  /\ Len(a_sent) > 1
  /\ tagged_elements # <<>>
  /\ a_return = ScreenshotDetails("not_available", "unavailable")

\* C10: the mapping returned by tagify() has exactly the keys "0".."n-1", n
\* the length of the table it installs; the tag at key str(i) has
\* annotation_number i and describes the i-th element of the table, and an
\* action addressed by i right after acts on that element's backend node.
C10_TagsNumberTheTable ==
  (t_result = "ok" /\ ~untagged) =>
    /\ DOMAIN t_tags = {PyStr(i) : i \in 0..(Len(tagged_elements) - 1)}
    /\ \A i \in 0..(Len(tagged_elements) - 1) :
         /\ t_tags[PyStr(i)].annotation_number = i
         /\ t_tags[PyStr(i)].html_id = tagged_elements[i + 1].html_id
         /\ t_tags[PyStr(i)].can_scroll_down = tagged_elements[i + 1].can_scroll_down
         /\ ( /\ a_call.op = "focus"
              /\ a_call.id = PyStr(i)
              /\ a_result # "none" )
            => \/ a_sent = <<>> /\ a_result = "running"
               \/ /\ a_sent # <<>>
                  /\ a_sent[1].node = tagged_elements[i + 1].backend_node_id

C10_Witness ==
  /\ t_result = "ok"
  /\ ~untagged
  /\ Len(tagged_elements) = 2
  /\ a_call.op = "focus"
  /\ a_call.id = <<"1">>
  /\ a_result = "ok"
  /\ t_tags[<<"1">>].html_id = "lnk"
  /\ a_sent[1].node = 11

\* the table and the point map describe the same elements
TableConsistent ==
  DOMAIN backend_node_id_point =
    {tagged_elements[i].backend_node_id : i \in 1..Len(tagged_elements)}

\* a step of the tagify() coroutine
TagifyStep == tagify_vars' # tagify_vars

IsPrefix(p, q) == Len(p) <= Len(q) /\ \A i \in 1..Len(p) : p[i] = q[i]

\* C8: tagify() replaces the table and the point map together, in one
\* step, once the whole pass is done; when the pass fails, and as long as
\* it is suspended, both are as they were, so an action called while it is
\* suspended resolves its number in the table of a completed pass (or the
\* empty one), never in the elements collected so far.
C8_TableReplacedAtomically ==
  /\ []TableConsistent
  /\ [][ /\ (TagifyStep /\ (t_pc' # "idle" \/ t_result' # "ok"))
              => UNCHANGED table_vars
         /\ (TagifyStep /\ table_vars' # table_vars)
              => /\ t_result' = "ok"
                 /\ Len(t_docs) <= 1
                 /\ IsPrefix(t_elements, tagged_elements')
         /\ \A n \in Numbers :
              (CalledWithNumber(n) /\ t_pc # "idle" /\ a_result' = "running")
                => /\ a_todo'[1].node \in DOMAIN backend_node_id_point
                   /\ UNCHANGED table_vars ]_vars

\* a focus was accepted while a pass was suspended with one element
\* collected and another document still to come
C8_Witness ==
  /\ t_pc = "gather"
  /\ Len(t_docs) = 1
  /\ t_elements # <<>>
  /\ tagged_elements # <<>>
  /\ tagged_elements[1] # t_elements[1]
  /\ a_call.op = "focus"
  /\ a_result = "ok"
  /\ a_sent[1].node = tagged_elements[1].backend_node_id

\* the candidates of `interactive` whose flag in `confirmed` is set, in order
RECURSIVE ConfirmedOf(_, _)
ConfirmedOf(interactive, confirmed) ==
  IF interactive = <<>> THEN <<>>
  ELSE (IF Head(confirmed) THEN <<Head(interactive)>> ELSE <<>>)
       \o ConfirmedOf(Tail(interactive), Tail(confirmed))

\* C9: a protocol error of one hit test or of one describeNode never makes
\* tagify() fail and never changes whether another candidate is
\* confirmed: a candidate is kept exactly when one of its own hit tests
\* succeeded with a node of its subtree (and its describeNode succeeded),
\* and the pass goes on to install the table of the candidates kept.
C9_ProbeErrorsAreIsolated ==
  /\ [](t_pc = "gather" =>
          /\ Len(t_confirmed) = Len(t_visible_points)
          /\ \A k \in 1..Len(t_visible_points) :
               (t_visible_points[k] # None) <=> t_confirmed[k])
  /\ [][ /\ (Len(t_visible_points') = Len(t_visible_points) + 1)
              => /\ t_pc' = "gather" /\ t_result' = "running"
                 /\ IsPrefix(t_visible_points, t_visible_points')
                 /\ UNCHANGED <<table_vars, t_elements, t_points>>
         /\ ( /\ TagifyStep /\ t_pc = "gather"
              /\ Len(t_visible_points) = Len(t_interactive) )
              => LET kept == t_elements \o ConfirmedOf(t_interactive, t_confirmed)
                     failing == Len(t_docs) > 1 /\ t_docs[2].raises
                 IN IF failing THEN t_result' = "extract_error"
                    ELSE IF Len(t_docs) > 1
                    THEN t_result' = "running" /\ t_elements' = kept
                    ELSE t_result' = "ok" /\ tagged_elements' = kept ]_vars

\* a pass completed although probes failed, keeping the second candidate
\* of a document and dropping the first
C9_Witness ==
  /\ t_result = "ok"
  /\ t_probe_error
  /\ ~untagged
  /\ Len(tagged_elements) = 1
  /\ tagged_elements[1].node_id = 2

(***************************************************************************)
(* The functions of the tagging package (tagging/shapes.py,                *)
(* tagging/tagify.py) and _convert_to_tag, applied to given arguments:     *)
(* x_call holds the function and its arguments, x_ret what it returned.    *)
(***************************************************************************)
\* coordinates and sizes of the rects given to Rect.clip_to are 0..MaxCoord
MaxCoord == 2

page_vars == <<table_vars, tagify_vars, history_vars, action_vars>>

\* the function returned v
Returned(v) == [raised |-> "", value |-> v]

\* the function raised the exception e
Raised(e) == [raised |-> e]

\* the function named fn has been applied to the arguments in x_call
Applied(fn) == x_call.fn = fn /\ x_ret # None

\* the step applies the function of x_call and stores what it returns
Apply(fn, ret) ==
  /\ x_call.fn = fn
  /\ x_ret = None
  /\ x_ret' = ret
  /\ UNCHANGED <<x_call, page_vars, browser_vars>>

RectInputs ==
  { Rect(x, y, w, h) : x \in 0..MaxCoord, y \in 0..MaxCoord,
                       w \in 0..MaxCoord, h \in 0..MaxCoord }

ClipToInputs ==
  { [fn |-> "clip_to", self |-> a, rect |-> b] : a \in RectInputs, b \in RectInputs }

\* a.clip_to(b)
ApplyClipTo ==
  Apply("clip_to", Returned(clip_to(x_call.self, x_call.rect)))

(***************************************************************************)
(* A DOM snapshot (browser/cdp/types.py).  document.nodes and              *)
(* document.layout are Python lists indexed from 0; each entry holds the   *)
(* fields that the snapshot keeps in parallel arrays.  Entries of the      *)
(* string table are written in place.  Texts are sequences of characters.  *)
(***************************************************************************)
ELEMENT_NODE == 1

TEXT_NODE == 3

DOCUMENT_NODE == 9

\* list[i], i counted from 0
At(list, i) == list[i + 1]

Indices(list) == 0..(Len(list) - 1)

NoAttributes == [k \in {} |-> <<>>]

\* one entry of the node arrays
SnapNode(parentIndex, nodeType, nodeName, nodeValue, backendNodeId, attributes) ==
  [parentIndex |-> parentIndex, nodeType |-> nodeType, nodeName |-> nodeName,
   nodeValue |-> nodeValue, backendNodeId |-> backendNodeId,
   attributes |-> attributes]

\* layout["styles"][layout_idx] zipped with the queried styles
Styles(display, visibility, overflow_x, overflow_y, cursor) ==
  [k \in {"display", "visibility", "overflow-x", "overflow-y", "cursor",
          "white-space"} |->
     CASE k = "display" -> display
       [] k = "visibility" -> visibility
       [] k = "overflow-x" -> overflow_x
       [] k = "overflow-y" -> overflow_y
       [] k = "cursor" -> cursor
       [] OTHER -> "normal"]

PlainStyles == Styles("block", "visible", "visible", "visible", "auto")

InlineStyles == Styles("inline", "visible", "visible", "visible", "auto")

\* one entry of the layout arrays
SnapLayout(nodeIndex, bounds, styles, scrollRect, clientRect, text) ==
  [nodeIndex |-> nodeIndex, bounds |-> bounds, styles |-> styles,
   scrollRect |-> scrollRect, clientRect |-> clientRect, text |-> text]

\* the rare-data tables of a document that the package reads
NoRare ==
  [isClickable |-> {}, inputChecked |-> {}, inputValue |-> EmptyMap,
   has_inputChecked |-> TRUE, has_optionSelected |-> TRUE,
   optionSelected |-> {}, contentDocumentIndex |-> None]

Document(frameId, contentWidth, contentHeight, nodes, layout, rare) ==
  [frameId |-> frameId, contentWidth |-> contentWidth,
   contentHeight |-> contentHeight, nodes |-> nodes, layout |-> layout,
   rare |-> rare]

\* parse_adjacency_list: the children of a node, in node order
RECURSIVE ChildrenFrom(_, _, _)
ChildrenFrom(nodes, parent_idx, node_idx) ==
  IF node_idx >= Len(nodes) THEN <<>>
  ELSE (IF /\ At(nodes, node_idx).parentIndex # (0 - 1)
           /\ At(nodes, node_idx).parentIndex = parent_idx
        THEN <<node_idx>> ELSE <<>>)
       \o ChildrenFrom(nodes, parent_idx, node_idx + 1)

adjacency_list(document, node_idx) == ChildrenFrom(document.nodes, node_idx, 0)

Reverse(list) == [i \in 1..Len(list) |-> list[Len(list) + 1 - i]]

\* node_layout_idx of text_content: a later layout entry of a node replaces
\* an earlier one
node_layout_idx(document) ==
  [n \in {At(document.layout, k).nodeIndex : k \in Indices(document.layout)} |->
     CHOOSE k \in Indices(document.layout) :
       /\ At(document.layout, k).nodeIndex = n
       /\ \A j \in Indices(document.layout) :
            At(document.layout, j).nodeIndex = n => j <= k]

is_being_rendered(layout_idx_of, node_idx) == node_idx \in DOMAIN layout_idx_of

(***************************************************************************)
(* Text extraction (tagify.py, text_content and its helpers)               *)
(***************************************************************************)
\* max_length: None or a number of characters
NoCap == [none |-> TRUE, n |-> 0]

Cap(n) == [none |-> FALSE, n |-> n]

Ellipsis == <<".", ".", ".">>

\* text[:n]
Take(text, n) == SubSeq(text, 1, Min(n, Len(text)))

\* mutant: a text as long as the cap is cut too
truncate_at_cap(text, max_length) ==
  IF ~max_length.none /\ Len(text) >= max_length.n
    THEN Take(text, max_length.n) \o Ellipsis
    ELSE text

\* the truncation that ends both paths of text_content
truncate(text, max_length) ==
  IF ~max_length.none /\ Len(text) > max_length.n
    THEN Take(text, max_length.n) \o Ellipsis
    ELSE text

\* the depth-first loop of _descendant_text_content; buf is the StringIO
RECURSIVE DescendantLoop(_, _, _, _)
DescendantLoop(document, node_idx_stack, buf, max_length) ==
  IF node_idx_stack = <<>> \/ ~(max_length.none \/ Len(buf) < max_length.n)
    THEN buf
    ELSE LET node_idx == node_idx_stack[Len(node_idx_stack)]
             rest == SubSeq(node_idx_stack, 1, Len(node_idx_stack) - 1)
             node == At(document.nodes, node_idx)
         IN IF node.nodeType = TEXT_NODE
              THEN DescendantLoop(document, rest, buf \o node.nodeValue, max_length)
            ELSE IF node.nodeType = ELEMENT_NODE
              THEN DescendantLoop(document,
                                  rest \o Reverse(adjacency_list(document, node_idx)),
                                  buf, max_length)
            ELSE DescendantLoop(document, rest, buf, max_length)

descendant_text_content(document, node_idx, max_length) ==
  truncate(DescendantLoop(document, <<node_idx>>, <<>>, max_length), max_length)

\* an entry of the list _rendered_text_collection returns: a text or a break
StrItem(s) == [is_str |-> TRUE, s |-> s, n |-> 0]

IntItem(n) == [is_str |-> FALSE, s |-> <<>>, n |-> n]

Whitespace == {" ", "\n", "\t"}

RECURSIVE SkipWhitespace(_)
SkipWhitespace(text) ==
  IF text # <<>> /\ Head(text) \in Whitespace THEN SkipWhitespace(Tail(text))
  ELSE text

\* re.sub(r"\s+", " ", text)
RECURSIVE normalize_whitespace(_)
normalize_whitespace(text) ==
  IF text = <<>> THEN <<>>
  ELSE IF Head(text) \in Whitespace
    THEN <<" ">> \o normalize_whitespace(SkipWhitespace(text))
    ELSE <<Head(text)>> \o normalize_whitespace(Tail(text))

\* styles.get(k); "" stands for None
StyleGet(styles, k) == IF k \in DOMAIN styles THEN styles[k] ELSE ""

block_level_display ==
  {"block", "flow-root", "flex", "grid", "table", "table-caption"}

RECURSIVE rendered_text_collection(_, _)
RECURSIVE CollectChildren(_, _)
CollectChildren(document, children) ==
  IF children = <<>> THEN <<>>
  ELSE rendered_text_collection(document, Head(children))
       \o CollectChildren(document, Tail(children))

rendered_text_collection(document, node_idx) ==
  LET items == CollectChildren(document, adjacency_list(document, node_idx))
      node == At(document.nodes, node_idx)
      layout_idx_of == node_layout_idx(document)
      rendered == is_being_rendered(layout_idx_of, node_idx)
      node_computed_styles ==
        IF rendered THEN At(document.layout, layout_idx_of[node_idx]).styles
        ELSE [k \in {} |-> ""]
      computed_visibility == StyleGet(node_computed_styles, "visibility")
      computed_display == StyleGet(node_computed_styles, "display")
      text == IF rendered THEN At(document.layout, layout_idx_of[node_idx]).text
              ELSE node.nodeValue
      with_text ==
        IF /\ node.nodeType = TEXT_NODE
           /\ computed_visibility # "hidden"
           /\ computed_display # "none"
          THEN Append(items,
                      StrItem(IF StyleGet(node_computed_styles, "white-space") # "pre"
                                THEN normalize_whitespace(text) ELSE text))
          ELSE items
      with_br ==
        IF node.nodeType = ELEMENT_NODE /\ node.nodeName = "BR"
          THEN Append(with_text, StrItem(<<"\n">>)) ELSE with_text
      with_cell ==
        IF computed_display = "table-cell" THEN Append(with_br, StrItem(<<"\t">>))
        ELSE IF computed_display = "table-row" THEN Append(with_br, StrItem(<<"\n">>))
        ELSE with_br
      with_p ==
        IF node.nodeType = ELEMENT_NODE /\ node.nodeName = "P"
          THEN Append(with_cell, IntItem(2)) ELSE with_cell
      with_block ==
        IF node.nodeType = ELEMENT_NODE /\ computed_display \in block_level_display
          THEN <<IntItem(1)>> \o with_p \o <<IntItem(1)>> ELSE with_p
  IN IF node.nodeName \notin {"SELECT", "OPTGROUP", "OPTION"} /\ ~rendered
       THEN items
       ELSE with_block

\* "\n" * n
RECURSIVE Newlines(_)
Newlines(n) == IF n <= 0 THEN <<>> ELSE <<"\n">> \o Newlines(n - 1)

\* the items from the first non-empty text on; <<>> when there is none
RECURSIVE FromFirstText(_)
FromFirstText(results) ==
  IF results = <<>> THEN <<>>
  ELSE IF Head(results).is_str /\ Head(results).s # <<>> THEN results
  ELSE FromFirstText(Tail(results))

\* the writing loop of text_content; max_req_line_break 0 stands for None
RECURSIVE WriteItems(_, _, _, _)
WriteItems(results, buf, max_req_line_break, max_length) ==
  IF results = <<>> THEN buf
  ELSE LET r == Head(results)
       IN IF r.is_str
            THEN LET written == buf \o Newlines(max_req_line_break) \o r.s
                 IN IF ~max_length.none /\ Len(written) > max_length.n
                      THEN written
                      ELSE WriteItems(Tail(results), written, 0, max_length)
            ELSE WriteItems(Tail(results), buf,
                            IF max_req_line_break = 0 \/ r.n > max_req_line_break
                              THEN r.n ELSE max_req_line_break,
                            max_length)

\* the text that text_content has collected when it reaches its final
\* truncation (the value of buf), on either path
collected_text(document, node_idx, max_length) ==
  IF ~is_being_rendered(node_layout_idx(document), node_idx)
    THEN DescendantLoop(document, <<node_idx>>, <<>>, max_length)
    ELSE WriteItems(
           FromFirstText(CollectChildren(document,
                                         adjacency_list(document, node_idx))),
           <<>>, 0, max_length)

\* text_content(document, strings, queried_styles, adjacency_list, node_idx,
\* max_length)
text_content_of(document, node_idx, max_length) ==
  IF ~is_being_rendered(node_layout_idx(document), node_idx)
    THEN descendant_text_content(document, node_idx, max_length)
    ELSE LET results ==
               FromFirstText(CollectChildren(document,
                                             adjacency_list(document, node_idx)))
         IN IF results = <<>> THEN <<>>
            ELSE truncate(WriteItems(results, <<>>, 0, max_length), max_length)

\* the caps given to text_content are 0..MaxCap
MaxCap == 4

TextInputs ==
  { <<>>, <<"a">>, <<"a", " ", "\n", "b">>, <<".", ".", ".">>,
    <<"a", "b", "c", "d">> }

\* <div>t1<p>t2</p></div>; the div has a layout entry or has none
TextDocument(t1, t2, rendered) ==
  Document("F0", 4, 4,
    << SnapNode(0 - 1, DOCUMENT_NODE, "#document", <<>>, 1, NoAttributes),
       SnapNode(0, ELEMENT_NODE, "HTML", <<>>, 2, NoAttributes),
       SnapNode(1, ELEMENT_NODE, "BODY", <<>>, 3, NoAttributes),
       SnapNode(2, ELEMENT_NODE, "DIV", <<>>, 4, NoAttributes),
       SnapNode(3, TEXT_NODE, "#text", t1, 5, NoAttributes),
       SnapNode(3, ELEMENT_NODE, "P", <<>>, 6, NoAttributes),
       SnapNode(5, TEXT_NODE, "#text", t2, 7, NoAttributes) >>,
    << SnapLayout(1, Rect(0, 0, 4, 4), PlainStyles, Rect(0, 0, 4, 4),
                  Rect(0, 0, 4, 4), <<>>),
       SnapLayout(2, Rect(0, 0, 4, 4), PlainStyles, Rect(0, 0, 4, 4),
                  Rect(0, 0, 4, 4), <<>>) >>
    \o (IF rendered
          THEN << SnapLayout(3, Rect(0, 0, 4, 2), PlainStyles, Rect(0, 0, 4, 2),
                             Rect(0, 0, 4, 2), <<>>) >>
          ELSE <<>>)
    \o << SnapLayout(4, Rect(0, 0, 2, 1), InlineStyles, NoRect, NoRect, t1),
          SnapLayout(5, Rect(0, 1, 4, 1), PlainStyles, Rect(0, 0, 4, 1),
                     Rect(0, 0, 4, 1), <<>>),
          SnapLayout(6, Rect(0, 1, 2, 1), InlineStyles, NoRect, NoRect, t2) >>,
    NoRare)

TextContentInputs ==
  { [fn |-> "text_content", document |-> TextDocument(t1, t2, rendered),
     node_idx |-> n, max_length |-> Cap(c)] :
      t1 \in TextInputs, t2 \in TextInputs, rendered \in BOOLEAN,
      n \in {3, 5}, c \in 0..MaxCap }

ApplyTextContent ==
  Apply("text_content",
        Returned(text_content_of(x_call.document, x_call.node_idx,
                                 x_call.max_length)))

(***************************************************************************)
(* Elements as the extractor builds them (tagging/elements.py,             *)
(* tagify.py).  kind is the class of the object; the fields of the         *)
(* subclasses are present on every element and unset on the others.        *)
(***************************************************************************)
BaseElement(frame_id, node_idx, node, styles, bounds, is_clickable, can_scroll_up, can_scroll_down, can_scroll_left, can_scroll_right) ==
  [kind |-> "Element",
   frame_id |-> frame_id,
   parent_id |-> node.parentIndex,
   node_id |-> node_idx,
   backend_node_id |-> node.backendNodeId,
   name |-> node.nodeName,
   attributes |-> node.attributes,
   html_id |-> DictGet(node.attributes, "id", None),
   styles |-> styles,
   bounds |-> bounds,
   is_clickable |-> is_clickable,
   can_scroll_up |-> can_scroll_up,
   can_scroll_down |-> can_scroll_down,
   can_scroll_left |-> can_scroll_left,
   can_scroll_right |-> can_scroll_right,
   is_select |-> FALSE,
   is_multi_select |-> FALSE,
   options |-> NoOptions,
   option_values |-> NoOptions,
   selected_option_indices |-> <<>>,
   text |-> <<>>,
   value |-> <<>>,
   selected |-> FALSE]

(***************************************************************************)
(* The select second pass (_fixup_select_elements)                         *)
(***************************************************************************)
\* the depth-first search for the OPTION nodes below a select
RECURSIVE OptionsLoop(_, _, _)
OptionsLoop(document, stack, found) ==
  IF stack = <<>> THEN found
  ELSE LET child_idx == stack[Len(stack)]
           rest == SubSeq(stack, 1, Len(stack) - 1)
       IN OptionsLoop(document,
                      rest \o Reverse(adjacency_list(document, child_idx)),
                      IF At(document.nodes, child_idx).nodeName = "OPTION"
                        THEN Append(found, child_idx) ELSE found)

\* sorted(select_options[select_element.node_id])
option_nodes_of(document, select_node_id) ==
  SortSeq(OptionsLoop(document,
                      Reverse(adjacency_list(document, select_node_id)), <<>>),
          LAMBDA a, b : a < b)

\* mutant: the node index of a selected option is recorded, not its position
RECURSIVE SelectedNodesFrom(_, _, _)
SelectedNodesFrom(document, option_nodes, option_index) ==
  IF option_index >= Len(option_nodes) THEN <<>>
  ELSE (IF At(option_nodes, option_index) \in document.rare.optionSelected
          THEN <<At(option_nodes, option_index)>> ELSE <<>>)
       \o SelectedNodesFrom(document, option_nodes, option_index + 1)

\* the positions, in option_nodes, of the options that the snapshot lists
\* as selected
RECURSIVE SelectedFrom(_, _, _)
SelectedFrom(document, option_nodes, option_index) ==
  IF option_index >= Len(option_nodes) THEN <<>>
  ELSE (IF At(option_nodes, option_index) \in document.rare.optionSelected
          THEN <<option_index>> ELSE <<>>)
       \o SelectedFrom(document, option_nodes, option_index + 1)

\* option_value: the value attribute of each option, or its text
option_values_of(document, option_nodes, option_text) ==
  [i \in 1..Len(option_nodes) |->
     IF "value" \in DOMAIN At(document.nodes, option_nodes[i]).attributes
       THEN At(document.nodes, option_nodes[i]).attributes["value"]
       ELSE option_text[i]]

\* SelectInputElement(**select_attrs, ...), lines 774-781
select_with_text(document, select_element, option_nodes, option_text) ==
  [select_element EXCEPT
     !.kind = "SelectInputElement",
     !.is_select = TRUE,
     !.is_multi_select = ("multiple" \in DOMAIN select_element.attributes),
     !.options = option_text,
     !.option_values = option_values_of(document, option_nodes, option_text),
     !.selected_option_indices = SelectedFrom(document, option_nodes, 0)]

\* the SelectInputElement of a select with the given option nodes, or the
\* KeyError of nodes.get("optionSelected", {})["index"] when the snapshot
\* has no such table and the select has an option
select_with_options(document, select_element, option_nodes) ==
  IF option_nodes # <<>> /\ ~document.rare.has_optionSelected
    THEN Raised("KeyError")
    ELSE Returned(select_with_text(
                    document, select_element, option_nodes,
                    [i \in 1..Len(option_nodes) |->
                       text_content_of(document, option_nodes[i], NoCap)]))

\* the SelectInputElement built for one pending select
fixup_select_element(document, select_element) ==
  select_with_options(document, select_element,
                      option_nodes_of(document, select_element.node_id))

(***************************************************************************)
(* The extractor (get_elements_in_viewport and its helpers)                *)
(***************************************************************************)
\* str.lower() on the strings that occur in the model
Lower(s) ==
  CASE s = "CHECKBOX" -> "checkbox"
    [] s = "Radio" -> "radio"
    [] s = "HTML" -> "html"
    [] s = "BODY" -> "body"
    [] s = "A" -> "a"
    [] s = "DIV" -> "div"
    [] s = "INPUT" -> "input"
    [] s = "TEXTAREA" -> "textarea"
    [] s = "SELECT" -> "select"
    [] s = "OPTION" -> "option"
    [] s = "IFRAME" -> "iframe"
    [] OTHER -> s

\* _get_root_node_idx: the first element node whose parent is node 0;
\* found is FALSE for None
RootCandidates(document) ==
  { i \in Indices(document.nodes) :
      /\ At(document.nodes, i).nodeType = ELEMENT_NODE
      /\ At(document.nodes, i).parentIndex = 0 }

get_root_node_idx(document) ==
  IF RootCandidates(document) = {} THEN [found |-> FALSE, idx |-> 0]
  ELSE [found |-> TRUE,
        idx |-> CHOOSE i \in RootCandidates(document) :
                  \A j \in RootCandidates(document) : i <= j]

\* _get_client_and_scroll_rects_by_node_idx: the rects of the first layout
\* entry of the node; found is FALSE for None
LayoutEntriesOf(document, node_idx) ==
  { k \in Indices(document.layout) : At(document.layout, k).nodeIndex = node_idx }

get_client_and_scroll_rects_by_node_idx(document, node_idx) ==
  IF LayoutEntriesOf(document, node_idx) = {}
    THEN [found |-> FALSE, client |-> NoRect, scroll |-> NoRect]
    ELSE LET k == CHOOSE k \in LayoutEntriesOf(document, node_idx) :
                    \A j \in LayoutEntriesOf(document, node_idx) : k <= j
         IN [found |-> TRUE, client |-> At(document.layout, k).clientRect,
             scroll |-> At(document.layout, k).scrollRect]

translate(self, x, y) == Rect(self.x + x, self.y + y, self.width, self.height)

\* _make_input_element: the input variant of an <input> or <textarea>
make_input_element(document, base_element) ==
  LET input_type == DictGet(base_element.attributes, "type", "")
      node_idx == base_element.node_id
  IN IF Lower(input_type) \in {"radio", "checkbox"}
       THEN IF ~document.rare.has_inputChecked THEN Raised("KeyError")
            ELSE Returned([base_element EXCEPT
                             !.kind = "CheckableInputElement",
                             !.value = DictGet(base_element.attributes, "value",
                                               <<"o", "n">>),
                             !.selected = (node_idx \in document.rare.inputChecked)])
       ELSE IF node_idx \notin DOMAIN document.rare.inputValue
              THEN Raised("ValueError")
              ELSE Returned([base_element EXCEPT
                               !.kind = "TextInputElement",
                               !.text = document.rare.inputValue[node_idx]])

\* a dict of elements by node id, kept as the list of its values in
\* insertion order
ById(elements, node_id) ==
  IF \E i \in 1..Len(elements) : elements[i].node_id = node_id
    THEN elements[CHOOSE i \in 1..Len(elements) : elements[i].node_id = node_id]
    ELSE None

HasId(elements, node_id) ==
  \E i \in 1..Len(elements) : elements[i].node_id = node_id

\* elements[node_id] = element
PutById(elements, element) ==
  IF HasId(elements, element.node_id)
    THEN [i \in 1..Len(elements) |->
            IF elements[i].node_id = element.node_id THEN element ELSE elements[i]]
    ELSE Append(elements, element)

\* _apply_overflow_viewport_propagation: the <html> element with the scroll
\* flags of <body>, or None
apply_overflow_viewport_propagation(body_element, elements_by_id, root_client_rect, root_scroll_rect) ==
  IF ~HasId(elements_by_id, body_element.parent_id) THEN None
  ELSE LET parent_element == ById(elements_by_id, body_element.parent_id)
           y_scrollable ==
             body_element.styles["overflow-y"] \in {"visible", "auto", "scroll"}
           x_scrollable ==
             body_element.styles["overflow-x"] \in {"visible", "auto", "scroll"}
       IN IF parent_element.name # "HTML" THEN None
          ELSE IF \/ body_element.styles["display"] = "none"
                  \/ parent_element.styles["display"] = "none"
                  \/ parent_element.styles["overflow-x"] # "visible"
                  \/ parent_element.styles["overflow-y"] # "visible"
            THEN None
          ELSE [parent_element EXCEPT
                  !.can_scroll_up = y_scrollable /\ root_scroll_rect.y > 0,
                  !.can_scroll_down =
                     y_scrollable /\ (root_scroll_rect.y + root_client_rect.height)
                                       < root_scroll_rect.height,
                  !.can_scroll_left = x_scrollable /\ root_scroll_rect.x > 0,
                  !.can_scroll_right =
                     x_scrollable /\ (root_scroll_rect.x + root_client_rect.width)
                                       < root_scroll_rect.width]

\* the bounds of a layout entry in root-document coordinates, before the
\* intersection test and the clip to the viewport (tagify.py lines 829-841)
placed_bounds(document, doc_absolute_bounds, is_root_frame, layout_idx) ==
  LET entry == At(document.layout, layout_idx)
      root_node_idx == get_root_node_idx(document).idx
      root_scroll_rect ==
        get_client_and_scroll_rects_by_node_idx(document, root_node_idx).scroll
      bounds == IF entry.nodeIndex = root_node_idx
                  THEN Rect(0, 0, document.contentWidth, document.contentHeight)
                  ELSE entry.bounds
      in_root == translate(bounds, doc_absolute_bounds.x, doc_absolute_bounds.y)
  IN IF ~is_root_frame
       THEN clip_to(translate(in_root, 0 - root_scroll_rect.x,
                              0 - root_scroll_rect.y),
                    doc_absolute_bounds)
       ELSE in_root

\* lines 855-887: the Element of a layout entry with the clipped bounds,
\* promoted to an input element for INPUT and TEXTAREA
element_of_entry(document, layout_idx, bounds) ==
  LET entry == At(document.layout, layout_idx)
      node_idx == entry.nodeIndex
      node == At(document.nodes, node_idx)
      styles == entry.styles
      scrollable_styles ==
        IF node.nodeName = "HTML" THEN {"auto", "scroll", "visible"}
        ELSE {"auto", "scroll"}
      scrollable_x == StyleGet(styles, "overflow-x") \in scrollable_styles
      \* line 866 reads overflow-x for the vertical axis too
      scrollable_y == StyleGet(styles, "overflow-x") \in scrollable_styles
      scroll_rect == entry.scrollRect
      client_rect == entry.clientRect
      element ==
        BaseElement(document.frameId, node_idx, node, styles, bounds,
                    node_idx \in document.rare.isClickable,
                    scrollable_y /\ scroll_rect.y > 0,
                    scrollable_y /\ (scroll_rect.y + client_rect.height)
                                      < scroll_rect.height,
                    scrollable_x /\ scroll_rect.x > 0,
                    scrollable_x /\ (scroll_rect.x + client_rect.width)
                                      < scroll_rect.width)
  IN IF node.nodeName \in {"INPUT", "TEXTAREA"}
       THEN make_input_element(document, element)
       ELSE Returned(element)

\* lines 889-901: the element is stored; <body> passes its scroll flags
\* to <html>, a <select> waits for the second pass
store_element(acc, root_rects, element, put) ==
  IF element.name = "BODY"
    THEN [acc EXCEPT !.elements =
            IF apply_overflow_viewport_propagation(element, put, root_rects.client,
                                                   root_rects.scroll) # None
              THEN PutById(put,
                     apply_overflow_viewport_propagation(element, put,
                                                         root_rects.client,
                                                         root_rects.scroll))
              ELSE put]
  ELSE IF element.name = "SELECT"
    THEN [acc EXCEPT !.elements = put, !.pending = Append(@, element)]
  ELSE [acc EXCEPT !.elements = put]

\* the exception of _make_input_element leaves the loop
store_made(acc, root_rects, made) ==
  IF made.raised # "" THEN [acc EXCEPT !.raised = made.raised]
  ELSE store_element(acc, root_rects, made.value,
                     PutById(acc.elements, made.value))

\* lines 848-854: the clip to the viewport and the style and area filter
clipped_entry(document, layout_idx, acc, root_node_idx, bounds) ==
  IF \/ At(document.layout, layout_idx).styles["display"] = "none"
     \/ At(document.layout, layout_idx).styles["visibility"] = "hidden"
     \/ bounds.width * bounds.height < 2
    THEN acc
    ELSE store_made(acc,
                    get_client_and_scroll_rects_by_node_idx(document, root_node_idx),
                    element_of_entry(document, layout_idx, bounds))

\* lines 825-846: non-element nodes and boxes that miss the viewport are
\* skipped; the root is kept without the intersection test
placed_entry(document, visible_rect, layout_idx, acc, root_node_idx, placed) ==
  IF At(document.nodes, At(document.layout, layout_idx).nodeIndex).nodeType
       # ELEMENT_NODE
    THEN acc
  ELSE IF /\ At(document.layout, layout_idx).nodeIndex # root_node_idx
          /\ ~intersects_with(placed, visible_rect)
    THEN acc
  ELSE clipped_entry(document, layout_idx, acc, root_node_idx,
                     clip_to(placed, visible_rect))

\* one turn of the loop over layout["nodeIndex"]; acc holds element_by_id,
\* pending_select_elements and the exception raised so far
ExtractEntry(document, doc_absolute_bounds, visible_rect, is_root_frame, layout_idx, acc) ==
  placed_entry(document, visible_rect, layout_idx, acc,
               get_root_node_idx(document).idx,
               placed_bounds(document, doc_absolute_bounds, is_root_frame,
                             layout_idx))

RECURSIVE ExtractLoop(_, _, _, _, _, _)
ExtractLoop(document, doc_absolute_bounds, visible_rect, is_root_frame, layout_idx, acc) ==
  IF layout_idx >= Len(document.layout) \/ acc.raised # "" THEN acc
  ELSE ExtractLoop(document, doc_absolute_bounds, visible_rect, is_root_frame,
                   layout_idx + 1,
                   ExtractEntry(document, doc_absolute_bounds, visible_rect,
                                is_root_frame, layout_idx, acc))

RECURSIVE ApplyFixups(_, _, _)

\* one select of the second pass replaces its entry, or its exception
\* leaves the function
apply_fixup(document, elements, pending, fixed) ==
  IF fixed.raised # "" THEN fixed
  ELSE ApplyFixups(document, PutById(elements, fixed.value), Tail(pending))

\* element_by_id.update(_fixup_select_elements(...))
ApplyFixups(document, elements, pending) ==
  IF pending = <<>> THEN Returned(elements)
  ELSE apply_fixup(document, elements, pending,
                   fixup_select_element(document, Head(pending)))

\* the dict returned after the loop, or the exception raised in it
after_loop(document, acc) ==
  IF acc.raised # "" THEN Raised(acc.raised)
  ELSE ApplyFixups(document, acc.elements, acc.pending)

\* lines 814-820: no root element, or no layout entry for it
no_root_rects(document, root) ==
  \/ ~root.found
  \/ ~get_client_and_scroll_rects_by_node_idx(document, root.idx).found

\* mutant: a document without a resolvable root is an error
element_by_id_strict(document, doc_absolute_bounds, visible_rect, is_root_frame) ==
  IF no_root_rects(document, get_root_node_idx(document))
    THEN Raised("ValueError")
    ELSE after_loop(document,
                    ExtractLoop(document, doc_absolute_bounds, visible_rect,
                                is_root_frame, 0,
                                [elements |-> <<>>, pending |-> <<>>, raised |-> ""]))

\* get_elements_in_viewport on a document of the snapshot: the values of
\* the dict it returns, in insertion order, or the exception it raises
element_by_id(document, doc_absolute_bounds, visible_rect, is_root_frame) ==
  IF no_root_rects(document, get_root_node_idx(document))
    THEN Returned(<<>>)
    ELSE after_loop(document,
                    ExtractLoop(document, doc_absolute_bounds, visible_rect,
                                is_root_frame, 0,
                                [elements |-> <<>>, pending |-> <<>>, raised |-> ""]))

(***************************************************************************)
(* Arguments of get_elements_in_viewport                                   *)
(***************************************************************************)
\* the viewport of these documents is FrameView wide and high
FrameView == 4

\* boxes of the documents start at 0..MaxBox on each axis
MaxBox == 3

\* the layout entry of a block box whose content does not scroll
Block(node_idx, bounds) ==
  SnapLayout(node_idx, bounds, PlainStyles,
             Rect(0, 0, bounds.width, bounds.height),
             Rect(0, 0, bounds.width, bounds.height), <<>>)

\* the layout entry of <html> or <body> in a document size wide and high
\* that is scrolled by (scroll_x, scroll_y)
Canvas(node_idx, size, scroll_x, scroll_y) ==
  SnapLayout(node_idx, Rect(0, 0, size, size), PlainStyles,
             Rect(scroll_x, scroll_y, size, size),
             Rect(0, 0, FrameView, FrameView), <<>>)

\* <html><body><div/></body></html>, the div laid out at box
BoxDocument(frameId, size, scroll_x, scroll_y, box) ==
  Document(frameId, size, size,
    << SnapNode(0 - 1, DOCUMENT_NODE, "#document", <<>>, 1, NoAttributes),
       SnapNode(0, ELEMENT_NODE, "HTML", <<>>, 2, NoAttributes),
       SnapNode(1, ELEMENT_NODE, "BODY", <<>>, 3, NoAttributes),
       SnapNode(2, ELEMENT_NODE, "DIV", <<>>, 4, NoAttributes) >>,
    << Canvas(1, size, scroll_x, scroll_y),
       Canvas(2, size, scroll_x, scroll_y),
       Block(3, box) >>,
    NoRare)

BoxInputs ==
  { Rect(x, y, w, h) : x \in 0..MaxBox, y \in 0..MaxBox, w \in 1..2, h \in 1..2 }

\* the root document seen through a viewport scrolled with it
RootFrameInputs ==
  { [fn |-> "get_elements_in_viewport",
     document |-> BoxDocument("F0", FrameView + 2, s[1], s[2], box),
     doc_absolute_bounds |-> Rect(0, 0, FrameView + 2, FrameView + 2),
     visible_rect |-> Rect(s[1], s[2], FrameView, FrameView),
     is_root_frame |-> TRUE] :
      s \in {<<0, 0>>, <<1, 2>>}, box \in BoxInputs }

\* the document of an iframe whose content box is frame_box
ChildFrameInputs ==
  { [fn |-> "get_elements_in_viewport",
     document |-> BoxDocument("F1", FrameView, s[1], s[2], box),
     doc_absolute_bounds |-> frame_box,
     visible_rect |-> Rect(0, 0, FrameView, FrameView),
     is_root_frame |-> FALSE] :
      s \in {<<0, 0>>, <<1, 0>>}, box \in BoxInputs,
      frame_box \in {Rect(0, 0, 1, 1), Rect(1, 1, 2, 2)} }

\* two selects; the first has an option, an optgroup with an option, and
\* text under both
SelectDocument(selected, has_table, with_value) ==
  Document("F0", FrameView, FrameView,
    << SnapNode(0 - 1, DOCUMENT_NODE, "#document", <<>>, 1, NoAttributes),
       SnapNode(0, ELEMENT_NODE, "HTML", <<>>, 2, NoAttributes),
       SnapNode(1, ELEMENT_NODE, "BODY", <<>>, 3, NoAttributes),
       SnapNode(2, ELEMENT_NODE, "SELECT", <<>>, 4, NoAttributes),
       SnapNode(3, ELEMENT_NODE, "OPTION", <<>>, 5,
                IF with_value THEN [k \in {"value"} |-> <<"v">>] ELSE NoAttributes),
       SnapNode(4, TEXT_NODE, "#text", <<"a">>, 6, NoAttributes),
       SnapNode(3, ELEMENT_NODE, "OPTGROUP", <<>>, 7, NoAttributes),
       SnapNode(6, ELEMENT_NODE, "OPTION", <<>>, 8, NoAttributes),
       SnapNode(7, TEXT_NODE, "#text", <<"b">>, 9, NoAttributes),
       SnapNode(2, ELEMENT_NODE, "SELECT", <<>>, 10,
                [k \in {"multiple"} |-> <<>>]),
       SnapNode(9, ELEMENT_NODE, "OPTION", <<>>, 11, NoAttributes) >>,
    << Canvas(1, FrameView, 0, 0),
       Canvas(2, FrameView, 0, 0),
       Block(3, Rect(0, 0, 2, 1)),
       Block(9, Rect(0, 2, 2, 1)) >>,
    [NoRare EXCEPT !.optionSelected = selected,
                   !.has_optionSelected = has_table])

SelectInputs ==
  { [fn |-> "get_elements_in_viewport",
     document |-> SelectDocument(selected, has_table, with_value),
     doc_absolute_bounds |-> Rect(0, 0, FrameView, FrameView),
     visible_rect |-> Rect(0, 0, FrameView, FrameView),
     is_root_frame |-> TRUE] :
      selected \in SUBSET {4, 7, 10}, has_table \in {TRUE}, with_value \in BOOLEAN }
  \cup
  { [fn |-> "get_elements_in_viewport",
     document |-> SelectDocument({}, FALSE, FALSE),
     doc_absolute_bounds |-> Rect(0, 0, FrameView, FrameView),
     visible_rect |-> Rect(0, 0, FrameView, FrameView),
     is_root_frame |-> TRUE] }

GetElementsInViewportInputs == RootFrameInputs \cup ChildFrameInputs \cup SelectInputs

ApplyGetElementsInViewport ==
  Apply("get_elements_in_viewport",
        element_by_id(x_call.document, x_call.doc_absolute_bounds,
                      x_call.visible_rect, x_call.is_root_frame))

(***************************************************************************)
(* Candidate test (tagify.py, is_interactive and its helpers)              *)
(***************************************************************************)
INTERACTABLE_ELEMENTS ==
  {"a", "button", "details", "embed", "input", "menu", "menuitem", "object",
   "select", "textarea", "summary", "label"}

INTERACTIVE_ROLES ==
  {"button", "menu", "menuitem", "link", "checkbox", "radio", "slider", "tab",
   "tabpanel", "combobox", "textbox", "grid", "listbox", "option",
   "progressbar", "scrollbar", "searchbox", "switch", "tree", "treeitem",
   "spinbutton", "tooltip"}

INTERACTIVE_CURSORS ==
  {"pointer", "move", "text", "grab", "grabbing", "cell", "copy", "alias",
   "all-scroll", "col-resize", "context-menu", "crosshair", "e-resize",
   "ew-resize", "help", "n-resize", "ne-resize", "nesw-resize", "ns-resize",
   "nw-resize", "nwse-resize", "row-resize", "s-resize", "se-resize",
   "sw-resize", "vertical-text", "w-resize", "zoom-in", "zoom-out"}

NON_INTERACTIVE_CURSORS ==
  {"not-allowed", "no-drop", "wait", "progress", "initial", "inherit"}

\* attributes.get(k) in values
AttrIn(attributes, k, values) == k \in DOMAIN attributes /\ attributes[k] \in values

is_commonly_interactable_element(element) ==
  /\ Lower(element.name) \notin {"html", "body"}
  /\ \/ element.is_clickable
     \/ Lower(element.name) \in INTERACTABLE_ELEMENTS
     \/ AttrIn(element.attributes, "role", INTERACTIVE_ROLES)
     \/ AttrIn(element.attributes, "aria-role", INTERACTIVE_ROLES)

has_pointer_style(element) ==
  StyleGet(element.styles, "cursor") \in INTERACTIVE_CURSORS

is_disabled_element(element) ==
  \/ "disabled" \in DOMAIN element.attributes
  \/ AttrIn(element.attributes, "aria-disabled", {"true"})
  \/ StyleGet(element.styles, "cursor") \in NON_INTERACTIVE_CURSORS

has_direct_pointer_style(e, in_viewport) ==
  IF ~has_pointer_style(e) THEN FALSE
  ELSE IF HasId(in_viewport, e.parent_id)
            /\ has_pointer_style(ById(in_viewport, e.parent_id))
    THEN FALSE
  ELSE TRUE

is_interactive(e, in_viewport) ==
  IF e.can_scroll_up \/ e.can_scroll_down \/ e.can_scroll_left \/ e.can_scroll_right
    THEN TRUE
  ELSE IF is_disabled_element(e) THEN FALSE
  ELSE is_commonly_interactable_element(e) \/ has_direct_pointer_style(e, in_viewport)

\* [e for e in in_viewport.values() if is_interactive(e, in_viewport)]
interactive_of(in_viewport) ==
  SelectSeq(in_viewport, LAMBDA e : is_interactive(e, in_viewport))

(***************************************************************************)
(* Frame geometry (tagify.py, extract_frame_bounds).  A snapshot is the    *)
(* list snapshot["documents"]; bounds are a Rect or None (none = TRUE).    *)
(***************************************************************************)
NoBounds == [none |-> TRUE, rect |-> NoRect]

SomeBounds(rect) == [none |-> FALSE, rect |-> rect]

\* str.rstrip("px")
RECURSIVE rstrip_px(_)
rstrip_px(s) ==
  IF s # <<>> /\ s[Len(s)] \in {"p", "x"}
    THEN rstrip_px(SubSeq(s, 1, Len(s) - 1))
    ELSE s

\* int(style_value.rstrip("px"))
style_offset(styles, k) == PyInt(rstrip_px(styles[k]))

OffsetStyles ==
  {"padding-top", "padding-left", "padding-right", "padding-bottom",
   "border-top-width", "border-left-width", "border-right-width",
   "border-bottom-width"}

\* the content box of an iframe node relative to its document (lines
\* 183-228); None when the node has no layout entry or a width does not
\* parse (both are the ValueError that the except clause catches)
iframe_relative_bounds(doc, iframe_node_idx) ==
  IF LayoutEntriesOf(doc, iframe_node_idx) = {} THEN NoBounds
  ELSE LET layout_idx == CHOOSE k \in LayoutEntriesOf(doc, iframe_node_idx) :
                           \A j \in LayoutEntriesOf(doc, iframe_node_idx) : k <= j
           iframe_box == At(doc.layout, layout_idx).bounds
           iframe_styles == At(doc.layout, layout_idx).styles
           off(k) == style_offset(iframe_styles, k).val
       IN IF \E k \in OffsetStyles : ~style_offset(iframe_styles, k).ok
            THEN NoBounds
            ELSE SomeBounds(
                   Rect(iframe_box.x + off("border-left-width") + off("padding-left"),
                        iframe_box.y + off("border-top-width") + off("padding-top"),
                        iframe_box.width - off("border-left-width")
                          - off("border-right-width") - off("padding-left")
                          - off("padding-right"),
                        iframe_box.height - off("border-top-width")
                          - off("border-bottom-width") - off("padding-top")
                          - off("padding-bottom")))

\* frame_children, frame_relative_bounds and frame_scroll_rect, all empty
EmptyFrames == [children |-> EmptyMap, relative |-> EmptyMap, scroll |-> EmptyMap]

\* the loop over zip(content_doc_index["index"], content_doc_index["value"])
RECURSIVE LinkLoop(_, _, _, _)
LinkLoop(snapshot, doc, k, st) ==
  LET links == doc.rare.contentDocumentIndex
  IN IF k >= Min(Len(links.index), Len(links.value)) THEN st
     ELSE LET iframe_node_idx == At(links.index, k)
              iframe_id == At(snapshot, At(links.value, k)).frameId
          IN LinkLoop(snapshot, doc, k + 1,
               [st EXCEPT
                  !.children = DictSet(@, doc.frameId,
                                       Append(@[doc.frameId], iframe_id)),
                  !.relative = DictSet(@, iframe_id,
                                       iframe_relative_bounds(doc, iframe_node_idx))])

\* the loop over snapshot["documents"] (lines 160-228)
RECURSIVE DocLoop(_, _, _)
DocLoop(snapshot, doc_idx, st) ==
  IF doc_idx >= Len(snapshot) THEN st
  ELSE LET doc == At(snapshot, doc_idx)
           cleared == [st EXCEPT !.children = DictSet(@, doc.frameId, <<>>)]
           root == get_root_node_idx(doc)
           rects == get_client_and_scroll_rects_by_node_idx(doc, root.idx)
           with_scroll ==
             IF root.found /\ rects.found
               THEN [cleared EXCEPT !.scroll = DictSet(@, doc.frameId, rects.scroll)]
               ELSE cleared
       IN IF doc.rare.contentDocumentIndex = None
            THEN DocLoop(snapshot, doc_idx + 1, cleared)
            ELSE DocLoop(snapshot, doc_idx + 1,
                         LinkLoop(snapshot, doc, 0, with_scroll))

\* mutant: every child frame is placed with the relative bounds of the
\* first child of its parent
child_bounds_of_first(st, root_frame_id, frame_id, abs_bounding_box, child_id) ==
  LET first_id == st.children[frame_id][1]
  IN IF ~abs_bounding_box.none /\ ~st.relative[first_id].none
       THEN LET moved == translate(st.relative[first_id].rect,
                                   abs_bounding_box.rect.x, abs_bounding_box.rect.y)
            IN SomeBounds(IF frame_id \in DOMAIN st.scroll /\ frame_id # root_frame_id
                            THEN translate(moved, 0 - st.scroll[frame_id].x,
                                           0 - st.scroll[frame_id].y)
                            ELSE moved)
       ELSE NoBounds

\* the absolute bounds of a child frame (lines 253-262)
child_bounds(st, root_frame_id, frame_id, abs_bounding_box, child_id) ==
  IF ~abs_bounding_box.none /\ ~st.relative[child_id].none
    THEN LET moved == translate(st.relative[child_id].rect,
                                abs_bounding_box.rect.x, abs_bounding_box.rect.y)
         IN SomeBounds(IF frame_id \in DOMAIN st.scroll /\ frame_id # root_frame_id
                         THEN translate(moved, 0 - st.scroll[frame_id].x,
                                        0 - st.scroll[frame_id].y)
                         ELSE moved)
    ELSE NoBounds

\* the breadth-first walk from the root frame (lines 246-264)
RECURSIVE WalkFrames(_, _, _, _)
WalkFrames(st, root_frame_id, queue, frame_bounds) ==
  IF queue = <<>> THEN frame_bounds
  ELSE LET frame_id == Head(queue).frame_id
           abs_bounding_box == Head(queue).bounds
           kids == st.children[frame_id]
           entries ==
             [i \in 1..Len(kids) |->
                [frame_id |-> kids[i],
                 bounds |-> child_bounds(st, root_frame_id, frame_id,
                                         abs_bounding_box, kids[i])]]
       IN WalkFrames(st, root_frame_id, Tail(queue) \o entries,
                     DictSet(frame_bounds, frame_id, abs_bounding_box))

\* extract_frame_bounds(snapshot, queried_styles): frame id -> Rect or None
extract_frame_bounds(snapshot) ==
  LET root_doc == At(snapshot, 0)
  IN WalkFrames(DocLoop(snapshot, 0, EmptyFrames), root_doc.frameId,
                << [frame_id |-> root_doc.frameId,
                    bounds |-> SomeBounds(Rect(0, 0, root_doc.contentWidth,
                                               root_doc.contentHeight))] >>,
                EmptyMap)

(***************************************************************************)
(* Snapshots with iframes                                                  *)
(***************************************************************************)
\* the computed styles of an iframe: every border width is border, every
\* padding is padding
FrameStyles(border, padding) ==
  [k \in (DOMAIN PlainStyles) \cup OffsetStyles |->
     IF k \in DOMAIN PlainStyles THEN PlainStyles[k]
     ELSE IF k \in {"padding-top", "padding-left", "padding-right",
                    "padding-bottom"} THEN padding
     ELSE border]

\* an <iframe> of a document: its box, whether it has a layout entry, its
\* border width, and the index of the document it holds (None for none)
Frame(box, laid_out, border, content) ==
  [box |-> box, laid_out |-> laid_out, border |-> border, content |-> content]

RECURSIVE FrameLayout(_, _)
FrameLayout(iframes, k) ==
  IF k > Len(iframes) THEN <<>>
  ELSE (IF iframes[k].laid_out
          THEN << SnapLayout(2 + k, iframes[k].box,
                             FrameStyles(iframes[k].border, <<"0", "p", "x">>),
                             Rect(0, 0, iframes[k].box.width, iframes[k].box.height),
                             Rect(0, 0, iframes[k].box.width, iframes[k].box.height),
                             <<>>) >>
          ELSE <<>>)
       \o FrameLayout(iframes, k + 1)

\* contentDocumentIndex of a document with the given iframes
FrameLinks(iframes) ==
  LET linked == SelectSeq([k \in 1..Len(iframes) |->
                             [index |-> 2 + k, value |-> iframes[k].content]],
                          LAMBDA l : l.value # None)
  IN IF linked = <<>> THEN None
     ELSE [index |-> [k \in 1..Len(linked) |-> linked[k].index],
           value |-> [k \in 1..Len(linked) |-> linked[k].value[1]]]

\* <html><body><iframe/>...</body></html>, scrolled by (scroll_x, scroll_y)
FrameDocument(frameId, scroll_x, scroll_y, iframes) ==
  Document(frameId, FrameView + 2, FrameView + 2,
    << SnapNode(0 - 1, DOCUMENT_NODE, "#document", <<>>, 1, NoAttributes),
       SnapNode(0, ELEMENT_NODE, "HTML", <<>>, 2, NoAttributes),
       SnapNode(1, ELEMENT_NODE, "BODY", <<>>, 3, NoAttributes) >>
    \o [k \in 1..Len(iframes) |->
          SnapNode(2, ELEMENT_NODE, "IFRAME", <<>>, 3 + k, NoAttributes)],
    << Canvas(1, FrameView + 2, scroll_x, scroll_y),
       Canvas(2, FrameView + 2, scroll_x, scroll_y) >>
    \o FrameLayout(iframes, 1),
    [NoRare EXCEPT !.contentDocumentIndex = FrameLinks(iframes)])

BorderInputs == { <<"0", "p", "x">>, <<"1", "p", "x">>, <<"1", ".", "5", "p", "x">> }

\* the documents of a page whose root F0 has two iframes, the second
\* holding F1; F1 has an iframe that holds F3; F2 is held by the first
\* iframe of the root.  linked says which of F1, F2, F3 their iframe links
FrameSnapshot(box, laid_out, border, root_scroll_y, scroll, linked) ==
  << FrameDocument("F0", 0, root_scroll_y,
       << Frame(box, laid_out, border, IF 2 \in linked THEN <<2>> ELSE None),
          Frame(Rect(1, 3, 3, 2), TRUE, <<"0", "p", "x">>,
                IF 1 \in linked THEN <<1>> ELSE None) >>),
     FrameDocument("F1", scroll, scroll,
       << Frame(Rect(1, 0, 2, 2), TRUE, <<"1", "p", "x">>,
                IF 3 \in linked THEN <<3>> ELSE None) >>),
     FrameDocument("F2", 0, 0, <<>>),
     FrameDocument("F3", 0, 0, <<>>) >>

FrameSnapshots ==
  { FrameSnapshot(box, laid_out, border, root_scroll_y, scroll, linked) :
      box \in {Rect(1, 0, 3, 3), Rect(0, 2, 2, 2)}, laid_out \in BOOLEAN,
      border \in BorderInputs, root_scroll_y \in 0..1, scroll \in 0..1,
      linked \in {{1, 2, 3}, {1, 3}, {1, 2}} }

ExtractFrameBoundsInputs ==
  { [fn |-> "extract_frame_bounds", snapshot |-> s] : s \in FrameSnapshots }

ApplyExtractFrameBounds ==
  Apply("extract_frame_bounds", Returned(extract_frame_bounds(x_call.snapshot)))

\* the snapshot with the documents at positions i and j exchanged and the
\* values of contentDocumentIndex renamed with them
SwapDocuments(snapshot, i, j) ==
  LET renamed(v) == IF v = i THEN j ELSE IF v = j THEN i ELSE v
  IN [k \in 1..Len(snapshot) |->
        LET doc == At(snapshot, renamed(k - 1))
            links == doc.rare.contentDocumentIndex
        IN IF links = None THEN doc
           ELSE [doc EXCEPT !.rare.contentDocumentIndex =
                   [index |-> links.index,
                    value |-> [n \in 1..Len(links.value) |->
                                 renamed(links.value[n])]]]]

\* the snapshot with the entries of every contentDocumentIndex reversed
ReverseLinks(snapshot) ==
  [k \in 1..Len(snapshot) |->
     LET links == snapshot[k].rare.contentDocumentIndex
     IN IF links = None THEN snapshot[k]
        ELSE [snapshot[k] EXCEPT !.rare.contentDocumentIndex =
                [index |-> Reverse(links.index), value |-> Reverse(links.value)]]]

\* the same page with its non-root documents and its link entries listed
\* in another order
Reorderings(snapshot) ==
  LET swapped == { SwapDocuments(snapshot, i, j) :
                     i \in 1..(Len(snapshot) - 1), j \in 1..(Len(snapshot) - 1) }
  IN swapped \cup { ReverseLinks(s) : s \in swapped }

(***************************************************************************)
(* One pass of tagify() over a snapshot (page.py, lines 354-410): the      *)
(* frame bounds, the extraction, the candidate test, the hit tests, the    *)
(* inner text and the tags.                                                *)
(***************************************************************************)
\* _INNER_TEXT_MAX_LENGTH_DEFAULT
INNER_TEXT_MAX_LENGTH_DEFAULT == 100

\* the replies of the browser to the probes of an element: describeNode
\* gives the element; every hit test gives the element, or the node
\* painted over it when the element is occluded
HitTest(element, visible_rect, occluded) ==
  [root_ok |-> TRUE,
   child_ids |-> {element.backend_node_id},
   points |-> [i \in 1..Len(points_in_viewport(element, visible_rect)) |->
                 [ok |-> TRUE,
                  backendNodeId |-> IF element.backend_node_id \in occluded
                                      THEN Occluder(element)
                                      ELSE element.backend_node_id]]]

\* the collect loop (lines 387-402) over the candidates of one document
RECURSIVE CollectVisible(_, _, _, _, _)
CollectVisible(document, interactive, visible_rect, occluded, acc) ==
  IF interactive = <<>> THEN acc
  ELSE LET e == Head(interactive)
           pt == is_element_visible(e, visible_rect,
                                    HitTest(e, visible_rect, occluded))
       IN CollectVisible(document, Tail(interactive), visible_rect, occluded,
            IF pt = None THEN acc
            ELSE [acc EXCEPT
                    !.elements = Append(@, e),
                    !.node_inner_text =
                       DictSet(@, e.backend_node_id,
                               text_content_of(document, e.node_id,
                                               Cap(INNER_TEXT_MAX_LENGTH_DEFAULT)))])

RECURSIVE DocumentLoop(_, _, _, _, _, _)

\* lines 377-402: the candidates of the document that pass the hit tests
\* join the table; an exception of the extraction leaves the pass
document_elements(snapshot, frame_bounds, visible_rect, occluded, doc_idx, acc, in_viewport) ==
  IF in_viewport.raised # "" THEN [acc EXCEPT !.raised = in_viewport.raised]
  ELSE DocumentLoop(snapshot, frame_bounds, visible_rect, occluded, doc_idx + 1,
                    CollectVisible(At(snapshot, doc_idx),
                                   interactive_of(in_viewport.value),
                                   visible_rect, occluded, acc))

\* lines 359-374: a frame without bounds or outside the viewport is skipped
document_step(snapshot, frame_bounds, visible_rect, occluded, doc_idx, acc, doc_bounds) ==
  IF doc_bounds.none \/ ~intersects_with(visible_rect, doc_bounds.rect)
    THEN DocumentLoop(snapshot, frame_bounds, visible_rect, occluded,
                      doc_idx + 1, acc)
    ELSE document_elements(snapshot, frame_bounds, visible_rect, occluded,
                           doc_idx, acc,
                           element_by_id(At(snapshot, doc_idx), doc_bounds.rect,
                                         visible_rect, doc_idx = 0))

\* the loop over snapshot["documents"] (lines 354-402); line 356 raises
\* KeyError for a frame id that frame_bounds does not hold
DocumentLoop(snapshot, frame_bounds, visible_rect, occluded, doc_idx, acc) ==
  IF doc_idx >= Len(snapshot) \/ acc.raised # "" THEN acc
  ELSE IF At(snapshot, doc_idx).frameId \notin DOMAIN frame_bounds
    THEN [acc EXCEPT !.raised = "KeyError"]
  ELSE document_step(snapshot, frame_bounds, visible_rect, occluded, doc_idx, acc,
                     frame_bounds[At(snapshot, doc_idx).frameId])

\* lines 404-410: the table and the tags
pass_result(acc) ==
  IF acc.raised # "" THEN Raised(acc.raised)
  ELSE Returned([elements |-> acc.elements,
                 tags |-> as_tags(acc.elements, acc.node_inner_text)])

\* tagify() after the snapshot was captured: the table it installs and the
\* tags it returns, or the exception that leaves it
tagify_snapshot(snapshot, visible_rect, occluded) ==
  pass_result(DocumentLoop(snapshot, extract_frame_bounds(snapshot),
                           visible_rect, occluded, 0,
                           [elements |-> <<>>, node_inner_text |-> EmptyMap,
                            raised |-> ""]))

(***************************************************************************)
(* Pages for the pass                                                      *)
(***************************************************************************)
\* a child of <body>: an element, or an iframe holding document content
Child(name, attributes, bounds, styles, content) ==
  [name |-> name, attributes |-> attributes, bounds |-> bounds,
   styles |-> styles, content |-> content]

\* <html><body>children</body></html> with backend node ids from first_id;
\* root_type is the node type of <html>, root_laid_out whether <html> has a
\* layout entry
BodyDocument(frameId, first_id, size, root_type, root_laid_out, children, rare) ==
  Document(frameId, size, size,
    << SnapNode(0 - 1, DOCUMENT_NODE, "#document", <<>>, first_id, NoAttributes),
       SnapNode(0, root_type, "HTML", <<>>, first_id + 1, NoAttributes),
       SnapNode(1, ELEMENT_NODE, "BODY", <<>>, first_id + 2, NoAttributes) >>
    \o [k \in 1..Len(children) |->
          SnapNode(2, ELEMENT_NODE, children[k].name, <<>>, first_id + 2 + k,
                   children[k].attributes)],
    (IF root_laid_out THEN << Canvas(1, size, 0, 0) >> ELSE <<>>)
    \o << Canvas(2, size, 0, 0) >>
    \o [k \in 1..Len(children) |->
          SnapLayout(2 + k, children[k].bounds, children[k].styles,
                     Rect(0, 0, children[k].bounds.width, children[k].bounds.height),
                     Rect(0, 0, children[k].bounds.width, children[k].bounds.height),
                     <<>>)],
    [rare EXCEPT !.contentDocumentIndex = FrameLinks(children)])

Attr(k, v) == [a \in {k} |-> v]

NoFrameStyles == FrameStyles(<<"0", "p", "x">>, <<"0", "p", "x">>)

\* the document of an iframe: a link; kind "no_root" has no element below
\* the document node, kind "no_layout" has no layout entry for <html>
LinkDocument(frameId, first_id, kind) ==
  BodyDocument(frameId, first_id, 2,
               IF kind = "no_root" THEN DOCUMENT_NODE ELSE ELEMENT_NODE,
               kind # "no_layout",
               << Child("A", Attr("href", "u"), Rect(0, 0, 2, 1), PlainStyles, None) >>,
               NoRare)

\* a form with a checkbox, a text input, a textarea, a clickable div with
\* display:none, and two iframes; the first iframe holds a document when
\* frame is not "absent"
FormSnapshot(size, checked, textarea, frame) ==
  << BodyDocument("F0", 10, size, ELEMENT_NODE, TRUE,
       << Child("INPUT", Attr("type", "checkbox"), Rect(0, 0, 2, 1), PlainStyles, None),
          Child("INPUT", Attr("type", "text"), Rect(0, 1, 2, 1), PlainStyles, None),
          Child(IF textarea = "none" THEN "P" ELSE "TEXTAREA", NoAttributes,
                Rect(2, 0, 2, 1), PlainStyles, None),
          Child("DIV", NoAttributes, Rect(2, 1, 2, 1),
                Styles("none", "visible", "visible", "visible", "auto"), None),
          Child("IFRAME", NoAttributes, Rect(0, 2, 2, 2), NoFrameStyles,
                IF frame = "absent" THEN None ELSE <<1>>),
          Child("IFRAME", NoAttributes, Rect(2, 2, 2, 2), NoFrameStyles,
                IF frame = "absent" THEN <<1>> ELSE <<2>>) >>,
       [NoRare EXCEPT
          !.isClickable = {6},
          !.inputChecked = IF checked THEN {3} ELSE {},
          !.inputValue = IF textarea = "listed"
                           THEN (4 :> <<"h", "i">>) @@ (5 :> <<"t">>)
                           ELSE (4 :> <<"h", "i">>)]) >>
  \o (IF frame = "absent" THEN <<>> ELSE << LinkDocument("F1", 30, frame) >>)
  \o << LinkDocument("F2", 50, "good") >>

FrameKinds == {"good", "no_root", "no_layout"}

TagifyInputs ==
  { [fn |-> "tagify",
     snapshot |-> FormSnapshot(size, checked, textarea, frame),
     visible_rect |-> Rect(0, 0, FrameView, FrameView),
     occluded |-> occluded] :
      size \in {FrameView, FrameView + 2}, checked \in BOOLEAN,
      textarea \in {"none", "listed", "unlisted"},
      frame \in FrameKinds \cup {"absent"},
      occluded \in {{}, {13}, {11}} }

ApplyTagify ==
  Apply("tagify",
        tagify_snapshot(x_call.snapshot, x_call.visible_rect, x_call.occluded))

(***************************************************************************)
(* _is_element_visible applied to one candidate: the browser's answer to   *)
(* DOM.describeNode, its answers to the hit tests and the order in which   *)
(* the hit tests complete                                                  *)
(***************************************************************************)
\* the viewport of a page scrolled down by one
ProbeViewport == Rect(0, 1, 3, 3)

\* candidates with all, three and two of their key points in the viewport
ProbeElements ==
  { [backend_node_id |-> 21, bounds |-> Rect(0, 1, 2, 2)],
    [backend_node_id |-> 22, bounds |-> Rect(2, 2, 2, 2)],
    [backend_node_id |-> 23, bounds |-> Rect(1, 0, 4, 2)] }

\* a hit test fails, or answers with the element, a descendant or an occluder
HitAnswers(element) ==
  HitReplies(element) \cup {[ok |-> TRUE, backendNodeId |-> element.backend_node_id]}

\* the hit tests complete in the order they were started, or in the reverse
CompletionOrders(n) == { [k \in 1..n |-> k], [k \in 1..n |-> n + 1 - k] }

\* when DOM.describeNode fails the hit-test coroutines are never awaited, so
\* no DOM.getNodeForLocation is sent and there is no answer
IsElementVisibleInputs ==
  UNION { LET n == Len(points_in_viewport(e, ProbeViewport))
          IN { [fn |-> "is_element_visible", element |-> e,
                visible_rect |-> ProbeViewport,
                reply |-> [root_ok |-> TRUE,
                           child_ids |-> {e.backend_node_id, DescendantOf(e)},
                           points |-> p, order |-> o]] :
                 p \in [1..n -> HitAnswers(e)], o \in CompletionOrders(n) }
             \cup
             { [fn |-> "is_element_visible", element |-> e,
                visible_rect |-> ProbeViewport,
                reply |-> [root_ok |-> FALSE, child_ids |-> {},
                           points |-> <<>>, order |-> <<>>]] }
        : e \in ProbeElements }

ApplyIsElementVisible ==
  Apply("is_element_visible",
        Returned(is_element_visible(x_call.element, x_call.visible_rect,
                                    x_call.reply)))

(***************************************************************************)
(* Further arguments of get_elements_in_viewport                           *)
(***************************************************************************)
OverflowInputs == {"visible", "hidden", "auto", "scroll"}

\* <html><body><div/></body></html>, the div a 2x2 box over a 4x4 content
\* scrolled by (scroll_x, scroll_y), with the given overflow styles
ScrollerDocument(overflow_x, overflow_y, scroll_x, scroll_y) ==
  Document("F0", FrameView, FrameView,
    << SnapNode(0 - 1, DOCUMENT_NODE, "#document", <<>>, 1, NoAttributes),
       SnapNode(0, ELEMENT_NODE, "HTML", <<>>, 2, NoAttributes),
       SnapNode(1, ELEMENT_NODE, "BODY", <<>>, 3, NoAttributes),
       SnapNode(2, ELEMENT_NODE, "DIV", <<>>, 4, NoAttributes) >>,
    << Canvas(1, FrameView, 0, 0),
       Canvas(2, FrameView, 0, 0),
       SnapLayout(3, Rect(1, 1, 2, 2),
                  Styles("block", "visible", overflow_x, overflow_y, "auto"),
                  Rect(scroll_x, scroll_y, 4, 4), Rect(0, 0, 2, 2), <<>>) >>,
    NoRare)

ScrollerInputs ==
  { [fn |-> "get_elements_in_viewport",
     document |-> ScrollerDocument(ox, oy, sx, sy),
     doc_absolute_bounds |-> Rect(0, 0, FrameView, FrameView),
     visible_rect |-> Rect(0, 0, FrameView, FrameView),
     is_root_frame |-> TRUE] :
      ox \in OverflowInputs, oy \in OverflowInputs, sx \in 0..2, sy \in 0..2 }

CursorInputs == {"auto", "pointer", "text"}

\* a box styled with the cursor, whose content does not scroll
Pointed(node_idx, bounds, cursor) ==
  SnapLayout(node_idx, bounds,
             Styles("block", "visible", "visible", "visible", cursor),
             Rect(0, 0, bounds.width, bounds.height),
             Rect(0, 0, bounds.width, bounds.height), <<>>)

\* <html><body><div><div><span/></div></div></body></html>: a chain of
\* three boxes with the given cursors, the middle one laid out at middle_box
CursorDocument(outer_cursor, middle_cursor, inner_cursor, middle_box) ==
  Document("F0", FrameView, FrameView,
    << SnapNode(0 - 1, DOCUMENT_NODE, "#document", <<>>, 1, NoAttributes),
       SnapNode(0, ELEMENT_NODE, "HTML", <<>>, 2, NoAttributes),
       SnapNode(1, ELEMENT_NODE, "BODY", <<>>, 3, NoAttributes),
       SnapNode(2, ELEMENT_NODE, "DIV", <<>>, 4, NoAttributes),
       SnapNode(3, ELEMENT_NODE, "DIV", <<>>, 5, NoAttributes),
       SnapNode(4, ELEMENT_NODE, "SPAN", <<>>, 6, NoAttributes) >>,
    << Canvas(1, FrameView, 0, 0),
       Canvas(2, FrameView, 0, 0),
       Pointed(3, Rect(0, 0, 4, 4), outer_cursor),
       Pointed(4, middle_box, middle_cursor),
       Pointed(5, Rect(1, 1, 2, 2), inner_cursor) >>,
    NoRare)

\* the middle box has an area, or is a box of height 0 that the area filter drops
InteractiveInputs ==
  { [fn |-> "interactive",
     document |-> CursorDocument(outer, middle, inner, box),
     doc_absolute_bounds |-> Rect(0, 0, FrameView, FrameView),
     visible_rect |-> Rect(0, 0, FrameView, FrameView),
     is_root_frame |-> TRUE] :
      outer \in CursorInputs, middle \in CursorInputs, inner \in CursorInputs,
      box \in {Rect(0, 0, 3, 3), Rect(0, 0, 3, 0)} }

\* page.py lines 364-375: the elements of the document in the viewport and
\* the candidates among them
candidates_of(in_viewport) ==
  IF in_viewport.raised # "" THEN in_viewport
  ELSE Returned([in_viewport |-> in_viewport.value,
                 interactive |-> interactive_of(in_viewport.value)])

ApplyInteractive ==
  Apply("interactive",
        candidates_of(element_by_id(x_call.document, x_call.doc_absolute_bounds,
                                    x_call.visible_rect, x_call.is_root_frame)))

\* <select><option>a</option><select><option>b</option></select></select>:
\* a select inserted into the subtree of another by script
NestedSelectDocument(selected, inner_rendered) ==
  Document("F0", FrameView, FrameView,
    << SnapNode(0 - 1, DOCUMENT_NODE, "#document", <<>>, 1, NoAttributes),
       SnapNode(0, ELEMENT_NODE, "HTML", <<>>, 2, NoAttributes),
       SnapNode(1, ELEMENT_NODE, "BODY", <<>>, 3, NoAttributes),
       SnapNode(2, ELEMENT_NODE, "SELECT", <<>>, 4, NoAttributes),
       SnapNode(3, ELEMENT_NODE, "OPTION", <<>>, 5, NoAttributes),
       SnapNode(4, TEXT_NODE, "#text", <<"a">>, 6, NoAttributes),
       SnapNode(3, ELEMENT_NODE, "SELECT", <<>>, 7, NoAttributes),
       SnapNode(6, ELEMENT_NODE, "OPTION", <<>>, 8,
                [k \in {"value"} |-> <<"v">>]),
       SnapNode(7, TEXT_NODE, "#text", <<"b">>, 9, NoAttributes) >>,
    << Canvas(1, FrameView, 0, 0),
       Canvas(2, FrameView, 0, 0),
       Block(3, Rect(0, 0, 2, 2)) >>
    \o (IF inner_rendered THEN << Block(6, Rect(0, 1, 2, 1)) >> ELSE <<>>),
    [NoRare EXCEPT !.optionSelected = selected])

NestedSelectInputs ==
  { [fn |-> "get_elements_in_viewport",
     document |-> NestedSelectDocument(selected, inner_rendered),
     doc_absolute_bounds |-> Rect(0, 0, FrameView, FrameView),
     visible_rect |-> Rect(0, 0, FrameView, FrameView),
     is_root_frame |-> TRUE] :
      selected \in SUBSET {4, 7}, inner_rendered \in BOOLEAN }

(***************************************************************************)
(* Further arguments of text_content: a block whose children are texts,    *)
(* line breaks, paragraphs, table rows and blocks                          *)
(***************************************************************************)
BreakKinds == {"text", "br", "p", "row", "block"}

\* the longest list of children
MaxChildren == 3

KindName(kind) ==
  CASE kind = "br" -> "BR" [] kind = "p" -> "P" [] kind = "row" -> "TR"
    [] OTHER -> "DIV"

KindStyles(kind) ==
  CASE kind = "br" -> InlineStyles
    [] kind = "row" -> Styles("table-row", "visible", "visible", "visible", "auto")
    [] OTHER -> PlainStyles

\* the text inside a child of the kind
KindText(kind) ==
  CASE kind = "text" -> <<"a">> [] kind = "p" -> <<"b">> [] kind = "row" -> <<"c">>
    [] OTHER -> <<"d">>

TextEntry(node_idx, text) ==
  SnapLayout(node_idx, Rect(0, 0, 1, 1), InlineStyles, NoRect, NoRect, text)

\* the nodes and layout entries of the children, appended in document order
RECURSIVE BreakParts(_, _, _)
BreakParts(kinds, nodes, layout) ==
  IF kinds = <<>> THEN [nodes |-> nodes, layout |-> layout]
  ELSE LET kind == Head(kinds)
           idx == Len(nodes)
       IN IF kind = "text"
            THEN BreakParts(Tail(kinds),
                   Append(nodes, SnapNode(3, TEXT_NODE, "#text", KindText(kind),
                                          idx + 1, NoAttributes)),
                   Append(layout, TextEntry(idx, KindText(kind))))
          ELSE IF kind = "br"
            THEN BreakParts(Tail(kinds),
                   Append(nodes, SnapNode(3, ELEMENT_NODE, "BR", <<>>, idx + 1,
                                          NoAttributes)),
                   Append(layout, SnapLayout(idx, Rect(0, 0, 0, 1), InlineStyles,
                                             NoRect, NoRect, <<>>)))
          ELSE BreakParts(Tail(kinds),
                 nodes \o << SnapNode(3, ELEMENT_NODE, KindName(kind), <<>>,
                                      idx + 1, NoAttributes),
                             SnapNode(idx, TEXT_NODE, "#text", KindText(kind),
                                      idx + 2, NoAttributes) >>,
                 layout \o << SnapLayout(idx, Rect(0, 0, 4, 1), KindStyles(kind),
                                         Rect(0, 0, 4, 1), Rect(0, 0, 4, 1), <<>>),
                              TextEntry(idx + 1, KindText(kind)) >>)

\* <html><body><div>children</div></body></html>
BreakDocument(kinds) ==
  LET parts ==
        BreakParts(kinds,
          << SnapNode(0 - 1, DOCUMENT_NODE, "#document", <<>>, 1, NoAttributes),
             SnapNode(0, ELEMENT_NODE, "HTML", <<>>, 2, NoAttributes),
             SnapNode(1, ELEMENT_NODE, "BODY", <<>>, 3, NoAttributes),
             SnapNode(2, ELEMENT_NODE, "DIV", <<>>, 4, NoAttributes) >>,
          << Block(1, Rect(0, 0, 4, 4)), Block(2, Rect(0, 0, 4, 4)),
             Block(3, Rect(0, 0, 4, 4)) >>)
  IN Document("F0", 4, 4, parts.nodes, parts.layout, NoRare)

BreakInputs ==
  { [fn |-> "text_content", document |-> BreakDocument(kinds), node_idx |-> 3,
     max_length |-> NoCap, kinds |-> kinds] :
      kinds \in UNION { [1..n -> BreakKinds] : n \in 1..MaxChildren } }

(***************************************************************************)
(* AsyncCDPBrowser (browser/cdp/browser.py): contexts, pages, the active   *)
(* ids, and the pass-through methods of the page actions.                  *)
(***************************************************************************)
\* at most MaxDispatch page actions are dispatched
MaxDispatch == 2

\* str(uuid4()) of create_browser_context
ContextIds == {"c1", "c2"}

\* the target ids that cdp_page.page_id returns
PageIds == {"p1", "p2"}

\* ids that a caller passes: known ones, one of no context or page, and
\* the empty string
ContextIdInputs == ContextIds \cup {"c9", ""}

PageIdInputs == PageIds \cup {"p9", ""}

PageOps ==
  {"click", "enter_text", "press_key", "select", "goto", "scroll", "focus",
   "hover"}

fn_and_page_vars == <<fn_vars, page_vars>>

\* create_browser_context(): the assignments follow the only await
CreateBrowserContext ==
  /\ \E context_id \in ContextIds \ b_contexts :
       /\ b_contexts' = b_contexts \cup {context_id}
       /\ b_active_context' = context_id
  /\ UNCHANGED <<fn_and_page_vars, b_pages, b_active_page, b_pc, b_last,
                 b_received>>

SetActiveBrowserContextAndPage ==
  /\ \E browser_context_id \in ContextIdInputs, page_id \in PageIdInputs :
       /\ b_active_context' = browser_context_id
       /\ b_active_page' = page_id
  /\ UNCHANGED <<fn_and_page_vars, b_contexts, b_pages, b_pc, b_last, b_received>>

SetActivePage ==
  /\ \E page_id \in PageIdInputs : b_active_page' = page_id
  /\ UNCHANGED <<fn_and_page_vars, b_contexts, b_pages, b_active_context, b_pc,
                 b_last, b_received>>

\* get_active_context(): None, DeepBrowserException, or the context data
get_active_context ==
  IF b_active_context = NoPage THEN Returned(None)
  ELSE IF b_active_context \notin b_contexts THEN Raised("DeepBrowserException")
  ELSE Returned(<<b_active_context>>)

\* create_page() up to its first await; it raises when there is no usable
\* active context
CreatePageCall ==
  /\ b_pc.at = "idle"
  /\ get_active_context.raised = ""
  /\ get_active_context.value # None
  /\ b_pc' = [at |-> "new_page", context_id |-> b_active_context]
  /\ UNCHANGED <<fn_and_page_vars, b_contexts, b_pages, b_active_context,
                 b_active_page, b_last, b_received>>

\* create_page() after its awaits: the page is registered and made active
CreatePageReturn ==
  /\ b_pc.at = "new_page"
  /\ \E page_id \in PageIds \ DOMAIN b_pages :
       /\ b_pages' = DictSet(b_pages, page_id,
                             [id |-> page_id, context_id |-> b_pc.context_id])
       /\ b_active_page' = page_id
  /\ b_pc' = [at |-> "idle", context_id |-> NoPage]
  /\ UNCHANGED <<fn_and_page_vars, b_contexts, b_active_context, b_last,
                 b_received>>

\* an await of create_page() raises: nothing is registered
CreatePageFails ==
  /\ b_pc.at = "new_page"
  /\ b_pc' = [at |-> "idle", context_id |-> NoPage]
  /\ UNCHANGED <<fn_and_page_vars, b_contexts, b_pages, b_active_context,
                 b_active_page, b_last, b_received>>

\* mutant: an unknown active id falls back to some known page
get_active_page_or_any ==
  IF b_active_page = NoPage THEN Raised("RuntimeError")
  ELSE IF b_active_page \notin DOMAIN b_pages
    THEN IF DOMAIN b_pages = {} THEN Raised("KeyError")
         ELSE Returned(b_pages[CHOOSE p \in DOMAIN b_pages : TRUE])
  ELSE Returned(b_pages[b_active_page])

\* get_active_page_or_throw(): RuntimeError for a falsy id, the KeyError of
\* self._pages[...] for an id that is no key
get_active_page_or_throw ==
  IF b_active_page = NoPage THEN Raised("RuntimeError")
  ELSE IF b_active_page \notin DOMAIN b_pages THEN Raised("KeyError")
  ELSE Returned(b_pages[b_active_page])

\* a pass-through method: the page found receives the call
PassThrough(op) ==
  /\ b_last.n < MaxDispatch
  /\ LET page_data == get_active_page_or_throw
     IN IF page_data.raised # ""
          THEN /\ b_last' = [op |-> op, page |-> NoPage,
                             result |-> page_data.raised, n |-> b_last.n + 1]
               /\ UNCHANGED b_received
          ELSE /\ b_last' = [op |-> op, page |-> page_data.value.id,
                             result |-> "called", n |-> b_last.n + 1]
               /\ b_received' =
                    DictSet(b_received, page_data.value.id,
                            Append(DictGet(b_received, page_data.value.id, <<>>),
                                   op))
  /\ UNCHANGED <<fn_and_page_vars, b_contexts, b_pages, b_active_context,
                 b_active_page, b_pc>>

BrowserClick == PassThrough("click")

BrowserEnterText == PassThrough("enter_text")

BrowserPressKey == PassThrough("press_key")

BrowserSelect == PassThrough("select")

BrowserGoto == PassThrough("goto")

BrowserScroll == PassThrough("scroll")

BrowserFocus == PassThrough("focus")

BrowserHover == PassThrough("hover")

NextBrowser ==
  \/ CreateBrowserContext
  \/ SetActiveBrowserContextAndPage
  \/ SetActivePage
  \/ CreatePageCall
  \/ CreatePageReturn
  \/ CreatePageFails
  \/ BrowserClick
  \/ BrowserEnterText
  \/ BrowserPressKey
  \/ BrowserSelect
  \/ BrowserGoto
  \/ BrowserScroll
  \/ BrowserFocus
  \/ BrowserHover

SpecBrowser == Init /\ [][NextBrowser]_vars

(***************************************************************************)
(* The functions of the tagging package, each applied once to arguments    *)
(* drawn from the input sets                                               *)
(***************************************************************************)
TaggingInputs ==
  ClipToInputs \cup TextContentInputs \cup GetElementsInViewportInputs
  \cup ExtractFrameBoundsInputs \cup TagifyInputs \cup IsElementVisibleInputs
  \cup ScrollerInputs \cup InteractiveInputs \cup NestedSelectInputs
  \cup BreakInputs

InitTagging ==
  /\ PageInit
  /\ BrowserInit
  /\ x_call \in TaggingInputs
  /\ x_ret = None

NextTagging ==
  \/ ApplyClipTo
  \/ ApplyTextContent
  \/ ApplyGetElementsInViewport
  \/ ApplyExtractFrameBounds
  \/ ApplyTagify
  \/ ApplyIsElementVisible
  \/ ApplyInteractive

SpecTagging == InitTagging /\ [][NextTagging]_vars

(***************************************************************************)
(* The page session with a click that overlaps tagify() and untagify():    *)
(* click() awaits the visible rect, four sends and two sleeps, and at each *)
(* of them the event loop may run a step of another coroutine.  The        *)
(* snapshots are those of one document at most and the probes get no       *)
(* protocol error.                                                         *)
(***************************************************************************)
ClickIds == {PyStr(0), PyStr(1)}

NextClickOverlap ==
  \/ TagifyCall
  \/ TagifyVisibleRect
  \/ TagifyVisibleRectFails
  \/ TagifySnapshot /\ Len(t_docs') <= 1
  \/ TagifySnapshotFails
  \/ TagifyProbe /\ ~t_probe_error'
  \/ TagifyGather
  \/ Untagify
  \/ \E id \in ClickIds : ClickCall(id)
  \/ ActionReply
  \/ ActionProtocolError
  \/ ActionReturn

SpecClickOverlap == Init /\ [][NextClickOverlap]_vars

(***************************************************************************)
(* The page session of one caller that scrolls and selects.  Every request *)
(* sent is answered, by a result or by a protocol error.                   *)
(***************************************************************************)
NextObjectGroup ==
  \/ Quiet /\ TagifyCall
  \/ TagifyVisibleRect
  \/ TagifySnapshot
  \/ TagifyProbe
  \/ TagifyGather
  \/ Quiet /\ \E id \in IdStrings : \E d \in DirectionInputs : ScrollCall(id, d)
  \/ Quiet /\ \E id \in IdStrings : \E o \in OptionInputs : SelectCall(id, o)
  \/ ActionReply
  \/ ActionProtocolError
  \/ ActionReturn

SpecObjectGroup ==
  /\ Init
  /\ [][NextObjectGroup]_vars
  /\ WF_vars(ActionReply \/ ActionProtocolError)

(***************************************************************************)
(* Properties of the tagging functions                                     *)
(***************************************************************************)
\* C12: for any two rects with non-negative width and height, a.clip_to(b)
\* has a non-negative width and a non-negative height.
C12_ClipToNonNegative ==
  Applied("clip_to") =>
    (x_ret.value.width >= 0 /\ x_ret.value.height >= 0)

EndsWithEllipsis(text) ==
  Len(text) >= 3 /\ SubSeq(text, Len(text) - 2, Len(text)) = Ellipsis

\* C16 as stated: the text returned by text_content is at most
\* max_length + 3 characters long; it ends with the ellipsis exactly when
\* the collected text is longer than max_length, and is then the first
\* max_length characters of the collected text followed by the ellipsis.
C16_TextCappedEllipsisExactly ==
  (Applied("text_content") /\ ~x_call.max_length.none) =>
    LET cap == x_call.max_length.n
        collected == collected_text(x_call.document, x_call.node_idx,
                                    x_call.max_length)
        text == x_ret.value
    IN /\ Len(text) <= cap + 3
       /\ EndsWithEllipsis(text) <=> (Len(collected) > cap)
       /\ Len(collected) > cap =>
            text = SubSeq(collected, 1, cap) \o <<".", ".", ".">>

\* C16: the text returned by text_content is at most max_length + 3
\* characters long; when the collected text is longer than max_length it is
\* the first max_length characters of the collected text followed by the
\* ellipsis, and otherwise it is the collected text itself (which may end
\* with three dots of its own).
C16_TextCapped ==
  (Applied("text_content") /\ ~x_call.max_length.none) =>
    LET cap == x_call.max_length.n
        collected == collected_text(x_call.document, x_call.node_idx,
                                    x_call.max_length)
        text == x_ret.value
    IN /\ Len(text) <= cap + 3
       /\ Len(collected) > cap =>
            text = SubSeq(collected, 1, cap) \o <<".", ".", ".">>
       /\ Len(collected) <= cap => text = collected

\* a text was cut on the rendered path and another on the fallback path
C16_Witness ==
  /\ Applied("text_content")
  /\ Len(x_ret.value) = x_call.max_length.n + 3
  /\ x_call.max_length.n > 0
  /\ x_call.node_idx = 3
  /\ ~is_being_rendered(node_layout_idx(x_call.document), 3)

\* the rect lies inside the other rect
Inside(rect, other) ==
  /\ other.x <= rect.x
  /\ other.y <= rect.y
  /\ rect.x + rect.width <= other.x + other.width
  /\ rect.y + rect.height <= other.y + other.height

\* C11: every element that get_elements_in_viewport returns has bounds of
\* non-negative width and height that lie inside the viewport rect given
C11_ElementBoundsInsideViewport ==
  (Applied("get_elements_in_viewport") /\ x_ret.raised = "") =>
    \A i \in 1..Len(x_ret.value) :
      /\ x_ret.value[i].bounds.width >= 0
      /\ x_ret.value[i].bounds.height >= 0
      /\ Inside(x_ret.value[i].bounds, x_call.visible_rect)

\* the select-input elements among the elements returned
SelectsReturned ==
  { i \in 1..Len(x_ret.value) : x_ret.value[i].kind = "SelectInputElement" }

\* C17: in every select-input element that the second pass builds, the
\* entries of selected_option_indices are positions 0 .. len(options) - 1,
\* distinct and ascending, and options and option_values are equally long
C17_SelectedOptionIndicesValid ==
  (Applied("get_elements_in_viewport") /\ x_ret.raised = "") =>
    \A i \in SelectsReturned :
      LET e == x_ret.value[i]
          chosen == e.selected_option_indices
      IN /\ Len(e.options) = Len(e.option_values)
         /\ \A k \in 1..Len(chosen) : chosen[k] \in 0..(Len(e.options) - 1)
         /\ \A k \in 1..(Len(chosen) - 1) : chosen[k] < chosen[k + 1]

\* a select with two options of which only the second is selected, next to
\* a select whose only option is selected
C17_Witness ==
  /\ Applied("get_elements_in_viewport")
  /\ x_ret.raised = ""
  /\ \E i \in SelectsReturned :
       /\ Len(x_ret.value[i].options) = 2
       /\ x_ret.value[i].selected_option_indices = <<1>>
  /\ \E i \in SelectsReturned :
       /\ Len(x_ret.value[i].options) = 1
       /\ x_ret.value[i].selected_option_indices = <<0>>

\* C13: the map that extract_frame_bounds returns has an entry for the
\* frame id of every document of the snapshot
C13_FrameBoundsTotal ==
  Applied("extract_frame_bounds") =>
    \A k \in 1..Len(x_call.snapshot) :
      x_call.snapshot[k].frameId \in DOMAIN x_ret.value

\* C14: extract_frame_bounds returns the same map when it is applied to
\* the same snapshot again, and when the non-root documents or the entries
\* of contentDocumentIndex are listed in another order
C14_FrameBoundsOrderIndependent ==
  Applied("extract_frame_bounds") =>
    /\ extract_frame_bounds(x_call.snapshot) = x_ret.value
    /\ \A s \in Reorderings(x_call.snapshot) :
         extract_frame_bounds(s) = x_ret.value

\* a page where both iframes of the root and a nested iframe in a scrolled
\* frame were placed
C14_Witness ==
  /\ Applied("extract_frame_bounds")
  /\ DOMAIN x_ret.value = {"F0", "F1", "F2", "F3"}
  /\ \A f \in DOMAIN x_ret.value : ~x_ret.value[f].none
  /\ x_ret.value["F1"].rect # x_ret.value["F2"].rect
  /\ x_ret.value["F3"].rect = Rect(2, 3, 0, 0)

\* the snapshot without the document at doc_idx: the document and the
\* contentDocumentIndex entries that hold it are left out
WithoutDocument(snapshot, doc_idx) ==
  LET kept == SelectSeq([k \in 1..Len(snapshot) |-> k - 1],
                        LAMBDA k : k # doc_idx)
      moved(v) == IF v > doc_idx THEN v - 1 ELSE v
      relinked(doc) ==
        LET links == doc.rare.contentDocumentIndex
            keep == SelectSeq([n \in 1..Len(links.value) |-> n],
                              LAMBDA n : links.value[n] # doc_idx)
        IN IF links = None THEN doc
           ELSE [doc EXCEPT !.rare.contentDocumentIndex =
                   IF keep = <<>> THEN None
                   ELSE [index |-> [n \in 1..Len(keep) |-> links.index[keep[n]]],
                         value |-> [n \in 1..Len(keep) |->
                                      moved(links.value[keep[n]])]]]
  IN [k \in 1..Len(kept) |-> relinked(At(snapshot, kept[k]))]

\* the document has no element below the document node, or that element
\* has no layout entry
NoResolvableRoot(document) ==
  \/ ~get_root_node_idx(document).found
  \/ ~get_client_and_scroll_rects_by_node_idx(
         document, get_root_node_idx(document).idx).found

\* C15: a document without a resolvable root yields no elements, and the
\* pass over the snapshot ends as the pass over the snapshot without that
\* document ends, with the same table and tags
C15_MalformedDocumentIsolated ==
  Applied("tagify") =>
    \A doc_idx \in 1..(Len(x_call.snapshot) - 1) :
      NoResolvableRoot(At(x_call.snapshot, doc_idx)) =>
        /\ element_by_id(At(x_call.snapshot, doc_idx),
                         Rect(0, 0, FrameView, FrameView),
                         x_call.visible_rect, FALSE) = Returned(<<>>)
        /\ x_ret = tagify_snapshot(WithoutDocument(x_call.snapshot, doc_idx),
                                   x_call.visible_rect, x_call.occluded)

\* a pass over a page whose first iframe holds a document without a
\* resolvable root returned elements of the root document and of the
\* second iframe's document
C15_Witness ==
  /\ Applied("tagify")
  /\ NoResolvableRoot(At(x_call.snapshot, 1))
  /\ x_ret.raised = ""
  /\ \E i \in 1..Len(x_ret.value.elements) : x_ret.value.elements[i].frame_id = "F0"
  /\ \E i \in 1..Len(x_ret.value.elements) : x_ret.value.elements[i].frame_id = "F2"
  /\ \A i \in 1..Len(x_ret.value.elements) : x_ret.value.elements[i].frame_id # "F1"

\* the document of the snapshot with the frame id
DocumentOf(snapshot, frame_id) ==
  snapshot[CHOOSE k \in 1..Len(snapshot) : snapshot[k].frameId = frame_id]

\* C18: the tag of every INPUT or TEXTAREA element of the table is of kind
\* INPUT and carries the element's text, or "true"/"false" for a checkable
\* input as the checked table says; no element with display:none is tagged
C18_InputTagsCarryValue ==
  (Applied("tagify") /\ x_ret.raised = "") =>
    \A i \in 1..Len(x_ret.value.elements) :
      LET e == x_ret.value.elements[i]
          tag == x_ret.value.tags[i]
          checked == DocumentOf(x_call.snapshot, e.frame_id).rare.inputChecked
      IN /\ e.styles["display"] # "none"
         /\ e.kind = "TextInputElement" =>
              tag.tag_name = "INPUT" /\ tag.value = <<e.text>>
         /\ e.kind = "CheckableInputElement" =>
              /\ tag.tag_name = "INPUT"
              /\ tag.value = <<PyBoolLower(e.node_id \in checked)>>

\* C19: no element named HTML or BODY is in the table of a pass
C19_RootElementsNeverTagged ==
  (Applied("tagify") /\ x_ret.raised = "") =>
    \A i \in 1..Len(x_ret.value.elements) :
      x_ret.value.elements[i].name \notin {"HTML", "BODY"}

\* the calls that the page object with the id has received
ReceivedBy(received, page_id) == DictGet(received, page_id, <<>>)

\* C20: a dispatched page action reaches the page recorded as active and
\* no other; with no active page, or an active id that is no known page,
\* it is rejected with an error and no page receives a call
C20_ActionsReachActivePageOnly ==
  [][ b_last'.n # b_last.n =>
        IF b_active_page # NoPage /\ b_active_page \in DOMAIN b_pages
          THEN /\ b_last'.result = "called"
               /\ ReceivedBy(b_received', b_active_page)
                    = Append(ReceivedBy(b_received, b_active_page), b_last'.op)
               /\ \A p \in PageIds \ {b_active_page} :
                    ReceivedBy(b_received', p) = ReceivedBy(b_received, p)
          ELSE /\ b_last'.result \in {"RuntimeError", "KeyError"}
               /\ b_received' = b_received ]_vars

\* with two pages known, one action reached a page and the next, with an
\* active id that is no known page, was rejected
C20_Witness ==
  /\ DOMAIN b_pages = PageIds
  /\ b_active_page \notin DOMAIN b_pages
  /\ b_active_page # NoPage
  /\ b_last.n = 2
  /\ b_last.result = "KeyError"
  /\ \E p \in PageIds :
       /\ Len(ReceivedBy(b_received, p)) = 1
       /\ \A q \in PageIds \ {p} : ReceivedBy(b_received, q) = <<>>

(***************************************************************************)
(* Properties of the actions' protocol traffic                             *)
(***************************************************************************)
MouseEventsSent ==
  SelectSeq(a_sent, LAMBDA m : m.method = "Input.dispatchMouseEvent")

ClickOrder == <<"mouseMoved", "mousePressed", "mouseReleased", "mouseMoved">>

\* the point of the click relative to the visible rect it read
ClickPoint == relative_point(a_local.rect, a_local.point[1], a_local.point[2])

\* the mouse events sent so far are a prefix of the four, all at ClickPoint
ClickEventsInOrder ==
  (a_call.op = "click" /\ a_result \in {"running", "ok", "protocol_error"}) =>
    /\ Len(MouseEventsSent) <= 4
    /\ \A i \in 1..Len(MouseEventsSent) :
         /\ MouseEventsSent[i].text = ClickOrder[i]
         /\ <<MouseEventsSent[i].x, MouseEventsSent[i].y>> = ClickPoint
    /\ (a_result = "ok") => (Len(MouseEventsSent) = 4)

\* an accepted click takes the point stored for the addressed element, and
\* after a failed send the click sends nothing more
ClickStep ==
  /\ (a_pc = "idle" /\ a_call'.op = "click" /\ a_pc' = "click_rect") =>
       LET element == tagged_elements[PyInt(a_call'.id).val + 1]
       IN a_local'.point = backend_node_id_point[element.backend_node_id]
  /\ (a_call.op = "click" /\ a_local.reply = "protocol_error") =>
       a_sent' \in {a_sent, <<>>}

\* C21: a click on a valid number sends mouseMoved, mousePressed,
\* mouseReleased, mouseMoved, in this order and all at the element's stored
\* point made relative to the visible rect read at the start of the click,
\* whatever tagify() or untagify() do meanwhile; a failed send ends the sequence
C21_ClickSendsFourEventsAtOnePoint ==
  []ClickEventsInOrder /\ [][ClickStep]_vars

\* a click that sent its four events on a scrolled page while the table was
\* being emptied by untagify()
C21_Witness ==
  /\ a_call.op = "click"
  /\ a_result = "ok"
  /\ Len(MouseEventsSent) = 4
  /\ a_local.rect.y > 0
  /\ tagged_elements = <<>>

\* an annotation number of the installed table: an integer in 0..n-1
ValidNumber(id) ==
  PyInt(id).ok /\ 0 <= PyInt(id).val /\ PyInt(id).val < Len(tagged_elements)

KeyOrInsertSent ==
  \E i \in 1..Len(a_sent) :
    a_sent[i].method \in {"Input.dispatchKeyEvent", "Input.insertText"}

\* C22: enter_text sends DOM.focus on the element's backend node, the
\* select-all+delete key-down, its key-up and Input.insertText with the text
\* as given, in this order; with an invalid number or a failed focus no key
\* event and no insertText is sent
C22_EnterTextOrderAndGuard ==
  (a_call.op = "enter_text" /\ a_result # "none") =>
    IF ~ValidNumber(a_call.id) THEN ~KeyOrInsertSent
    ELSE LET element == tagged_elements[PyInt(a_call.id).val + 1]
         IN /\ IsPrefix(a_sent, EnterTextMsgs(element, a_call.arg))
            /\ (a_result = "ok") => (a_sent = EnterTextMsgs(element, a_call.arg))
            /\ (Len(a_sent) = 1 /\ a_local.reply = "protocol_error") =>
                 (a_pc = "idle" /\ a_todo = <<>>)

ReleasesSent ==
  SelectSeq(a_sent, LAMBDA m : m.method = "Runtime.releaseObjectGroup")

\* a scroll or select that passed its validation and entered the object group
InGroupCall == InObjectGroup /\ a_result \in {"running", "ok", "protocol_error"}

\* at most one release, for the group of the DOM.resolveNode, after every
\* other message; exactly one once the call is over; none for a rejected call
ReleaseOnce ==
  /\ InGroupCall =>
       /\ Len(ReleasesSent) <= 1
       /\ \A i \in 1..Len(a_sent) :
            (a_sent[i].method = "Runtime.releaseObjectGroup") =>
              /\ i = Len(a_sent)
              /\ i > 1
              /\ a_sent[1].method = "DOM.resolveNode"
              /\ a_sent[i].group = a_sent[1].group
       /\ (a_pc = "idle") => (Len(ReleasesSent) = 1)
  /\ (InObjectGroup /\ a_result \in RejectErrors) => (a_sent = <<>>)

\* C29: a scroll or select that passed its validation eventually sends one
\* Runtime.releaseObjectGroup, and only one, for the group of its
\* DOM.resolveNode and after its other messages, also when one of these
\* fails; a rejected call sends nothing
C29_ObjectGroupReleasedOnce ==
  /\ []ReleaseOnce
  /\ (InObjectGroup /\ a_result = "running")
       ~> (InObjectGroup /\ Len(ReleasesSent) = 1)

\* a select whose DOM.resolveNode failed and that released its group
C29_Witness ==
  /\ a_call.op = "select"
  /\ a_result = "protocol_error"
  /\ Len(a_sent) = 2
  /\ a_sent[1].method = "DOM.resolveNode"
  /\ a_sent[2] = ReleaseMsg(a_sent[1].group)

(***************************************************************************)
(* Properties of the visibility verifier and the extractor                 *)
(***************************************************************************)
\* the five sample points of a box: center, then the corners row by row
SamplePoints(b) ==
  << <<b.x + (b.width \div 2), b.y + (b.height \div 2)>>,
     <<b.x, b.y>>, <<b.x + b.width, b.y>>,
     <<b.x, b.y + b.height>>, <<b.x + b.width, b.y + b.height>> >>

SampledInViewport(b, v) ==
  SelectSeq(SamplePoints(b),
            LAMBDA p : /\ v.x <= p[1] /\ p[1] <= v.x + v.width
                       /\ v.y <= p[2] /\ p[2] <= v.y + v.height)

\* the i-th sampled point was hit-tested and the answer is the element or a
\* descendant of it
Qualifies(i) ==
  LET hits == x_call.reply.points
  IN /\ i \in DOMAIN hits
     /\ hits[i].ok
     /\ hits[i].backendNodeId \in
          {x_call.element.backend_node_id, DescendantOf(x_call.element)}

\* C23: the verifier returns the first point, in the order center, top-left,
\* top-right, bottom-left, bottom-right restricted to the viewport, whose hit
\* test answered with a node of the element's subtree, whatever the order in
\* which the hit tests complete, and no point exactly when none qualifies
C23_FirstQualifyingSamplePoint ==
  Applied("is_element_visible") =>
    LET kept == SampledInViewport(x_call.element.bounds, x_call.visible_rect)
    IN IF \E i \in 1..Len(kept) : Qualifies(i)
       THEN \E i \in 1..Len(kept) :
              /\ Qualifies(i)
              /\ \A j \in 1..(i - 1) : ~Qualifies(j)
              /\ x_ret = Returned(kept[i])
       ELSE x_ret = Returned(None)

\* the center is occluded, a corner lies outside the viewport, two later
\* corners qualify and their hit tests complete in reverse order
C23_Witness ==
  /\ Applied("is_element_visible")
  /\ x_call.element.backend_node_id = 22
  /\ x_call.reply.root_ok
  /\ ~Qualifies(1) /\ Qualifies(2) /\ Qualifies(3)
  /\ x_call.reply.order[1] = 3
  /\ x_ret = Returned(<<2, 2>>)

\* the overflow values that make an element of this name scrollable
ScrollableStyles(name) ==
  IF name = "HTML" THEN {"auto", "scroll", "visible"} ELSE {"auto", "scroll"}

\* the first layout entry of the element's node
EntryOf(document, element) ==
  At(document.layout,
     CHOOSE k \in LayoutEntriesOf(document, element.node_id) :
       \A j \in LayoutEntriesOf(document, element.node_id) : k <= j)

\* C24: of every element extracted, HTML apart, the vertical scroll flags
\* follow overflow-y and the horizontal ones overflow-x, each with the
\* comparison of scroll rect and client rect on its axis
C24_ScrollFlagsFollowTheirAxis ==
  (Applied("get_elements_in_viewport") /\ x_ret.raised = "") =>
    \A i \in 1..Len(x_ret.value) :
      LET element == x_ret.value[i]
          entry == EntryOf(x_call.document, element)
          s == entry.scrollRect
          c == entry.clientRect
          y_scrolls == entry.styles["overflow-y"] \in ScrollableStyles(element.name)
          x_scrolls == entry.styles["overflow-x"] \in ScrollableStyles(element.name)
      IN element.name # "HTML" =>
           /\ element.can_scroll_up = (y_scrolls /\ s.y > 0)
           /\ element.can_scroll_down = (y_scrolls /\ s.y + c.height < s.height)
           /\ element.can_scroll_left = (x_scrolls /\ s.x > 0)
           /\ element.can_scroll_right = (x_scrolls /\ s.x + c.width < s.width)

\* the node indices of the ancestors of a node, by the parent links
RECURSIVE AncestorsOf(_, _)
AncestorsOf(document, node_idx) ==
  LET parent == At(document.nodes, node_idx).parentIndex
  IN IF parent < 0 THEN {} ELSE {parent} \cup AncestorsOf(document, parent)

HasFlag(e) ==
  e.can_scroll_up \/ e.can_scroll_down \/ e.can_scroll_left \/ e.can_scroll_right

InSeq(s, e) == \E i \in 1..Len(s) : s[i] = e

\* C25: an element that is a candidate by its cursor alone has an interactive
\* cursor and no extracted ancestor with an interactive cursor, so of a
\* nested chain of such cursors only the outermost is a candidate
C25_OnlyOutermostCursorIsCandidate ==
  (Applied("interactive") /\ x_ret.raised = "") =>
    \A i \in 1..Len(x_ret.value.in_viewport) :
      LET e == x_ret.value.in_viewport[i]
          extracted_ancestors ==
            { a \in 1..Len(x_ret.value.in_viewport) :
                x_ret.value.in_viewport[a].node_id
                  \in AncestorsOf(x_call.document, e.node_id) }
      IN (/\ ~is_disabled_element(e)
          /\ ~HasFlag(e)
          /\ ~is_commonly_interactable_element(e)
          /\ InSeq(x_ret.value.interactive, e)) =>
           /\ has_pointer_style(e)
           /\ \A a \in extracted_ancestors :
                ~has_pointer_style(x_ret.value.in_viewport[a])

\* the OPTION nodes below a node, in document order, that are reached
\* without passing through another select
RECURSIVE OwnOptions(_, _)
RECURSIVE OwnOptionsOfChildren(_, _)
OwnOptionsOfChildren(document, children) ==
  IF children = <<>> THEN <<>>
  ELSE OwnOptions(document, Head(children))
       \o OwnOptionsOfChildren(document, Tail(children))

OwnOptions(document, node_idx) ==
  LET name == At(document.nodes, node_idx).nodeName
      below == OwnOptionsOfChildren(document, adjacency_list(document, node_idx))
  IN IF name = "SELECT" THEN <<>>
     ELSE IF name = "OPTION" THEN <<node_idx>> \o below
     ELSE below

\* C27: the options of a select are the OPTION nodes of its subtree outside
\* any select nested in it, once each and in document order; an option's
\* value is its value attribute or else its text, and its position is
\* listed as selected exactly when the snapshot lists its node as selected
C27_OptionsOfOwnSubtree ==
  (Applied("get_elements_in_viewport") /\ x_ret.raised = "") =>
    \A i \in 1..Len(x_ret.value) :
      LET element == x_ret.value[i]
          document == x_call.document
          own == OwnOptionsOfChildren(
                   document, adjacency_list(document, element.node_id))
      IN element.kind = "SelectInputElement" =>
           /\ Len(element.options) = Len(own)
           /\ Len(element.option_values) = Len(own)
           /\ \A k \in 1..Len(own) :
                LET attributes == At(document.nodes, own[k]).attributes
                    text == text_content_of(document, own[k], NoCap)
                IN /\ element.options[k] = text
                   /\ element.option_values[k] =
                        (IF "value" \in DOMAIN attributes
                           THEN attributes["value"] ELSE text)
                   /\ (own[k] \in document.rare.optionSelected)
                        <=> InSeq(element.selected_option_indices, k - 1)

(***************************************************************************)
(* Properties of the text extractor                                        *)
(***************************************************************************)
\* the break markers a child of the kind brings before and after its text:
\* 1 is a line break, 2 a paragraph break
MarkersBefore(kind) ==
  CASE kind \in {"br", "p", "block"} -> 1 [] OTHER -> 0

MarkersAfter(kind) ==
  CASE kind = "p" -> 2 [] kind \in {"row", "block"} -> 1 [] OTHER -> 0

\* the text of the children with the strongest pending break written before
\* each text fragment but the first, and no break after the last
RECURSIVE BrokenText(_, _, _)
BrokenText(kinds, pending, out) ==
  IF kinds = <<>> THEN out
  ELSE LET kind == Head(kinds)
           before == Max(pending, MarkersBefore(kind))
       IN IF kind = "br" THEN BrokenText(Tail(kinds), before, out)
          ELSE BrokenText(Tail(kinds), MarkersAfter(kind),
                          out \o (IF out = <<>> THEN <<>> ELSE Newlines(before))
                              \o KindText(kind))

\* C26: the text of a rendered node has no break before its first text
\* fragment and none after its last one (the breaks of BR and of table rows
\* included), and between two consecutive fragments as many newlines as the
\* strongest break pending between them: two, one or none
C26_BreaksOnlyBetweenFragments ==
  (Applied("text_content") /\ "kinds" \in DOMAIN x_call) =>
    x_ret = Returned(BrokenText(x_call.kinds, 0, <<>>))

\* the INPUT and TEXTAREA nodes of the document that are not checkable and
\* have no entry in the input-value table
UnlistedInputs(document) ==
  { node_idx \in 0..(Len(document.nodes) - 1) :
      /\ At(document.nodes, node_idx).nodeType = ELEMENT_NODE
      /\ At(document.nodes, node_idx).nodeName \in {"INPUT", "TEXTAREA"}
      /\ Lower(DictGet(At(document.nodes, node_idx).attributes, "type", ""))
           \notin {"radio", "checkbox"}
      /\ node_idx \notin DOMAIN document.rare.inputValue }

\* the snapshot with an empty value listed for every unlisted input
WithEmptyValues(snapshot) ==
  [k \in 1..Len(snapshot) |->
     [snapshot[k] EXCEPT !.rare.inputValue =
        [node_idx \in (DOMAIN @) \cup UnlistedInputs(snapshot[k]) |->
           IF node_idx \in DOMAIN @ THEN @[node_idx] ELSE <<>>]]]

\* C30: a pass over a snapshot with a text input or textarea that the
\* input-value table does not list does not fail, and ends as the pass over
\* the snapshot that lists the node with an empty value: the node is a text
\* input with empty text and every other element is the same
C30_UnlistedInputHasEmptyText ==
  (/\ Applied("tagify")
   /\ \E k \in 1..Len(x_call.snapshot) : UnlistedInputs(x_call.snapshot[k]) # {})
    => /\ x_ret.raised = ""
       /\ x_ret = tagify_snapshot(WithEmptyValues(x_call.snapshot),
                                  x_call.visible_rect, x_call.occluded)

====
